---- MODULE Spec2Model ----
(***************************************************************************)
(* Prakvedaa CRM front end: the doctor dashboards (the update-panel page   *)
(* of src/src/pages/Doctor.tsx and the inline-editor page of               *)
(* src/unnamed/part_000), the record store they talk to, and the print /   *)
(* notification gates of the doctor and sales pages.                       *)
(*                                                                         *)
(* Text values (notes, contacts) are sequences of one-character strings so *)
(* that trimming and whitespace stripping are computed, not assumed.       *)
(* A null or undefined JavaScript value is the marker None.                *)
(***************************************************************************)
EXTENDS Integers, Sequences, FiniteSets, TLC

\* ------------------------------------------------------------------ bounds
MaxLen == 3
NumPatients == 2
NumCons == 1
MaxLoads == 1
MaxSeq == 3
MaxCalls == 1
MaxOverlap == 2
MaxHops == 5
MaxRows == 2

\* ------------------------------------------------------------------- state
VARIABLES
  srvPatients,       \* record store: patient id -> patient
  srvConsultations,  \* record store: consultation id -> consultation
  serverFilters,     \* whether the record store scopes its lists to the doctor
  view,              \* the page mounted: "panel", "inline", "inline2" or "sales"
  patients,          \* held patients (ids are unique)
  consultations,     \* held consultations (consultations / rows), in list order
  openPanelId,       \* panel page: the row whose update panel is open
  notesInput,        \* panel page: the textarea of the update panel
  noteDraft,         \* inline page: note drafts by consultation id, None = no key
  statusDraft,       \* inline page: status drafts by id, NoStatus = no key
  loading,           \* inline page: the table is replaced by "Loading..."
  toast,             \* the toast text, "" when hidden
  loads,             \* loadAll calls in flight
  lastEvent,         \* the last update, print or notify action and what it did
  gateC,             \* gates as pure functions: the consultation given
  gateP,             \* gates as pure functions: the patient given
  gateOut,           \* gates as pure functions: the last result computed
  latIn,             \* latestByPatient: the consultations given, in list order
  latPos,            \* latestByPatient: index of the next consultation of the loop
  latMap,            \* latestByPatient (scheduled_at, then id): patient id -> candidate
  latMapId,          \* latestByPatient (id only): patient id -> candidate
  latStep,           \* latestByPatient: the last iteration: c, prev and what it did
  token,             \* AuthProvider: token
  sessionUser,       \* AuthProvider: user
  lsToken,           \* localStorage "token"
  lsUser,            \* localStorage "user"
  authHeader,        \* api.defaults.headers.common["Authorization"]
  authEvent,         \* the last login / logout / reload and how it ended
  doctors,           \* sales page: the doctors held
  route,             \* BrowserRouter: the current location
  hops,              \* the redirects made since the location was last entered
  salesPage,         \* sales page: which of the page's source versions is mounted
  form,              \* sales page: the new-patient form
  assign,            \* sales page: the assign-doctor form
  schedule,          \* sales page: the schedule form
  salesToast,        \* sales page: the message last shown
  request,           \* sales page: the last click of a form button and what came of it
  browser,           \* the locale and the time zone of the browser
  calls              \* the calls of async handlers that have not ended

storeVars == <<srvPatients, srvConsultations, serverFilters>>
pageVars == <<view, patients, consultations, openPanelId, notesInput,
              noteDraft, statusDraft, loading, toast, loads>>
logVars == <<lastEvent>>
gateVars == <<gateC, gateP, gateOut>>
latVars == <<latIn, latPos, latMap, latMapId, latStep>>
authVars == <<token, sessionUser, lsToken, lsUser, authHeader, authEvent>>
salesVars == <<doctors>>
routeVars == <<route, hops>>
formVars == <<salesPage, form, assign, schedule, salesToast, request>>
envVars == <<browser>>
callVars == <<calls>>
vars == <<storeVars, pageVars, logVars, gateVars, latVars, authVars, salesVars, routeVars,
          formVars, envVars, callVars>>

\* ------------------------------------------------------- JavaScript values
None == <<"null">>
NoStatus == "null"
NoEmail == "null"
NoId == 0

\* the code points \s matches and String.prototype.trim removes (ECMAScript WhiteSpace
\* and LineTerminator); a code point without an escape of its own is named U+XXXX
WhiteSpace ==
  {" ", "\t", "\n", "\r", "\f", "U+000B", "U+00A0", "U+1680", "U+2000", "U+2001",
   "U+2002", "U+2003", "U+2004", "U+2005", "U+2006", "U+2007", "U+2008", "U+2009",
   "U+200A", "U+2028", "U+2029", "U+202F", "U+205F", "U+3000", "U+FEFF"}

IsSpace(ch) == ch \in WhiteSpace

\* the characters U+0020 .. U+007E in code order (the grave accent by its code point)
Ascii ==
  <<" ", "!", "\"", "#", "$", "%", "&", "'", "(", ")", "*", "+", ",", "-", ".", "/",
    "0", "1", "2", "3", "4", "5", "6", "7", "8", "9", ":", ";", "<", "=", ">", "?",
    "@", "A", "B", "C", "D", "E", "F", "G", "H", "I", "J", "K", "L", "M", "N", "O",
    "P", "Q", "R", "S", "T", "U", "V", "W", "X", "Y", "Z", "[", "\\", "]", "^", "_",
    "U+0060", "a", "b", "c", "d", "e", "f", "g", "h", "i", "j", "k", "l", "m", "n", "o",
    "p", "q", "r", "s", "t", "u", "v", "w", "x", "y", "z", "{", "|", "}", "~">>

IsAscii(ch) == \E i \in 1..Len(Ascii) : Ascii[i] = ch
CharCode(ch) == 31 + (CHOOSE i \in 1..Len(Ascii) : Ascii[i] = ch)

DigitChars == <<"0", "1", "2", "3", "4", "5", "6", "7", "8", "9">>
DigitValue(ch) == (CHOOSE i \in 1..10 : DigitChars[i] = ch) - 1

\* String(n) for n >= 0, one character per digit
RECURSIVE Digits(_)
Digits(n) ==
  IF n < 10 THEN <<DigitChars[n + 1]>>
  ELSE Digits(n \div 10) \o <<DigitChars[(n % 10) + 1]>>

\* padStart(2, "0")
Pad2(n) == IF n < 10 THEN <<"0">> \o Digits(n) ELSE Digits(n)

\* the number written by the digits of a text
RECURSIVE NumberOf(_)
NumberOf(s) ==
  IF s = <<>> THEN 0 ELSE 10 * NumberOf(SubSeq(s, 1, Len(s) - 1)) + DigitValue(s[Len(s)])

\* the browser the page runs in: its locale, its time zone, and the character its
\* locale data puts before the day period (a space, or U+202F in newer data)
Browsers ==
  {[locale |-> "en-US", zone |-> "UTC", gap |-> " "],
   [locale |-> "en-US", zone |-> "UTC", gap |-> "U+202F"],
   [locale |-> "de-DE", zone |-> "UTC", gap |-> " "],
   [locale |-> "en-IN", zone |-> "Asia/Kolkata", gap |-> " "],
   [locale |-> "en-IN", zone |-> "Asia/Kolkata", gap |-> "U+202F"],
   [locale |-> "en-US", zone |-> "America/New_York", gap |-> " "],
   [locale |-> "en-US", zone |-> "America/New_York", gap |-> "U+202F"]}

\* minutes the zone is ahead of UTC (no daylight saving in the months modelled)
OffsetMinutes(zone) ==
  CASE zone = "UTC" -> 0
    [] zone = "Asia/Kolkata" -> 330
    [] zone = "America/New_York" -> -300

\* x || ""  for a string | null | undefined
OrEmpty(x) == IF x = None \/ x = <<>> THEN <<>> ELSE x

\* x ?? ""  for a string | null | undefined
CoalesceEmpty(x) == IF x = None THEN <<>> ELSE x

\* truthiness of a string | null | undefined
Truthy(x) == x /= None /\ x /= <<>>

\* c.status ?? "pending"
StatusOrPending(st) == IF st = NoStatus THEN "pending" ELSE st

RECURSIVE TrimStart(_)
TrimStart(s) ==
  IF s = <<>> THEN <<>>
  ELSE IF IsSpace(Head(s)) THEN TrimStart(Tail(s)) ELSE s

RECURSIVE TrimEnd(_)
TrimEnd(s) ==
  IF s = <<>> THEN <<>>
  ELSE IF IsSpace(s[Len(s)]) THEN TrimEnd(SubSeq(s, 1, Len(s) - 1)) ELSE s

\* String.prototype.trim
Trim(s) == TrimEnd(TrimStart(s))

\* s.replace(/\s+/g, "")
RECURSIVE RemoveSpaces(_)
RemoveSpaces(s) ==
  IF s = <<>> THEN <<>>
  ELSE IF IsSpace(Head(s)) THEN RemoveSpaces(Tail(s))
       ELSE <<Head(s)>> \o RemoveSpaces(Tail(s))

\* s.replace(/^\+/, "")
StripLeadingPlus(s) == IF s /= <<>> /\ Head(s) = "+" THEN Tail(s) ELSE s

\* ------------------------------------------------------------ record shapes
Statuses == {"pending", "completed"}
DoctorEmail == "doc@crm.com"
OtherEmail == "doc2@crm.com"

\* patientById[c.patient_id] when the id is not held: every p?.field is undefined
NoPatient == [id |-> NoId, name |-> None, contact |-> None,
              assigned_doctor_email |-> NoEmail]

\* ------------------------------------------------------------- print gates
\* variant of CanPrint that tests the notes without trimming them
CanPrintNoTrim(c) ==
  LET status == StatusOrPending(c.status)
      notes == OrEmpty(c.doctor_notes)
  IN ~(status /= "completed" \/ ~Truthy(notes))

\* inline-editor doctor page: the guard of printConsultation
CanPrint(c) ==
  LET status == StatusOrPending(c.status)
      notes == Trim(OrEmpty(c.doctor_notes))
  IN ~(status /= "completed" \/ ~Truthy(notes))

\* sales page with the per-patient table: the guard of printConsultation
CanPrintSales(cons) ==
  LET status == StatusOrPending(cons.status)
      notes == IF cons.doctor_notes = None THEN None ELSE Trim(cons.doctor_notes)
  IN ~(status /= "completed" \/ ~Truthy(notes))

\* ------------------------------------------------------- notification link
\* variant of Phone that strips the leading "+" before the whitespace
PhoneBadOrder(p) ==
  IF p.contact = None THEN <<>>
  ELSE OrEmpty(RemoveSpaces(StripLeadingPlus(p.contact)))

\* p?.contact?.replace(/\s+/g, "")?.replace(/^\+/, "") || ""
Phone(p) ==
  IF p.contact = None THEN <<>>
  ELSE OrEmpty(StripLeadingPlus(RemoveSpaces(p.contact)))

\* a scheduled_at that Date cannot parse, for which Date.parse gives NaN: a number
\* that no instant of the model takes; the other values are instants, in
\* milliseconds since 1970-01-01T00:00:00Z, of the days around that date
NotADate == -2147483647

InvalidDate == <<"I", "n", "v", "a", "l", "i", "d", " ", "D", "a", "t", "e">>

\* the calendar date and the clock of instant t in the zone
LocalClock(t, zone) ==
  LET secs == (t \div 1000) + 60 * OffsetMinutes(zone)
      day == secs \div 86400
      sod == secs % 86400
  IN [year |-> IF day < 0 THEN 1969 ELSE 1970,
      month |-> IF day < 0 THEN 12 ELSE 1,
      day |-> IF day < 0 THEN 32 + day ELSE day + 1,
      hour |-> sod \div 3600, minute |-> (sod \div 60) % 60, second |-> sod % 60]

Hour12(h) == IF h % 12 = 0 THEN 12 ELSE h % 12

\* Date.prototype.toLocaleString() of instant t: date and time in the notation of
\* the browser's locale, read in its zone; the milliseconds are not shown
RenderLocal(t, b) ==
  LET k == LocalClock(t, b.zone)
      ms == <<":">> \o Pad2(k.minute) \o <<":">> \o Pad2(k.second)
  IN CASE b.locale = "en-US" ->
            Digits(k.month) \o <<"/">> \o Digits(k.day) \o <<"/">> \o Digits(k.year)
              \o <<",", " ">> \o Digits(Hour12(k.hour)) \o ms
              \o <<b.gap>> \o (IF k.hour < 12 THEN <<"A", "M">> ELSE <<"P", "M">>)
       [] b.locale = "en-IN" ->
            Digits(k.day) \o <<"/">> \o Digits(k.month) \o <<"/">> \o Digits(k.year)
              \o <<",", " ">> \o Digits(Hour12(k.hour)) \o ms
              \o <<b.gap>> \o (IF k.hour < 12 THEN <<"a", "m">> ELSE <<"p", "m">>)
       [] b.locale = "de-DE" ->
            Digits(k.day) \o <<".">> \o Digits(k.month) \o <<".">> \o Digits(k.year)
              \o <<",", " ">> \o Pad2(k.hour) \o ms

\* new Date(c.scheduled_at).toLocaleString() in a browser
LocaleStringIn(s, b) == IF s[1] = NotADate THEN InvalidDate ELSE RenderLocal(s[1], b)

LocaleString(s) == LocaleStringIn(s, browser)

\* the local rendering, a dash (U+2014) when the consultation has no scheduled_at
When(c) == IF c.scheduled_at /= <<>> THEN LocaleString(c.scheduled_at) ELSE <<"U+2014">>

Hello == <<"H", "e", "l", "l", "o", " ">>
YourLink == <<",", " ", "y", "o", "u", "r", " ", "v", "i", "d", "e", "o", " ",
              "c", "o", "n", "s", "u", "l", "t", "a", "t", "i", "o", "n", " ",
              "l", "i", "n", "k", ":", " ">>
At == <<" ", "a", "t", " ">>

\* variant of Message that appends the " at " clause whatever scheduled_at is
MessageAlwaysAt(c, p) ==
  Hello \o OrEmpty(p.name) \o YourLink \o c.video_url \o At \o When(c)

\* `Hello ${p?.name || ""}, your video consultation link: ${c.video_url}${...}`
Message(c, p) ==
  Hello \o OrEmpty(p.name) \o YourLink \o c.video_url \o
    (IF c.scheduled_at /= <<>> THEN At \o When(c) ELSE <<>>)

\* the characters encodeURIComponent leaves as they are: A-Z a-z 0-9 - _ . ! ~ * ' ( )
Unreserved ==
  {Ascii[i] : i \in (34..59) \cup (17..26) \cup (66..91)}
    \cup {"-", "_", ".", "!", "~", "*", "'", "(", ")"}

HexDigits == <<"0", "1", "2", "3", "4", "5", "6", "7", "8", "9",
               "A", "B", "C", "D", "E", "F">>

\* one byte as %XX
PercentByte(n) == <<"%", HexDigits[(n \div 16) + 1], HexDigits[(n % 16) + 1]>>

\* the characters the model names outside U+0020 .. U+007E, with their code points
CodePoints ==
  {<<"\t", 9>>, <<"\n", 10>>, <<"U+000B", 11>>, <<"\f", 12>>, <<"\r", 13>>,
   <<"U+00A0", 160>>, <<"U+1680", 5760>>, <<"U+2000", 8192>>, <<"U+2001", 8193>>,
   <<"U+2002", 8194>>, <<"U+2003", 8195>>, <<"U+2004", 8196>>, <<"U+2005", 8197>>,
   <<"U+2006", 8198>>, <<"U+2007", 8199>>, <<"U+2008", 8200>>, <<"U+2009", 8201>>,
   <<"U+200A", 8202>>, <<"U+2014", 8212>>, <<"U+2028", 8232>>, <<"U+2029", 8233>>,
   <<"U+202F", 8239>>, <<"U+205F", 8287>>, <<"U+3000", 12288>>, <<"U+FEFF", 65279>>}

CodePoint(ch) ==
  IF IsAscii(ch) THEN CharCode(ch) ELSE (CHOOSE e \in CodePoints : e[1] = ch)[2]

\* the UTF-8 bytes of a code point of the basic plane
Utf8(cp) ==
  IF cp < 128 THEN <<cp>>
  ELSE IF cp < 2048 THEN <<192 + (cp \div 64), 128 + (cp % 64)>>
  ELSE <<224 + (cp \div 4096), 128 + ((cp \div 64) % 64), 128 + (cp % 64)>>

RECURSIVE PercentBytes(_)
PercentBytes(bytes) ==
  IF bytes = <<>> THEN <<>> ELSE PercentByte(Head(bytes)) \o PercentBytes(Tail(bytes))

\* encodeURIComponent of one character: an unreserved character stays, any other is
\* replaced by the escapes of its UTF-8 bytes
EncodeChar(ch) ==
  IF ch \in Unreserved THEN <<ch>> ELSE PercentBytes(Utf8(CodePoint(ch)))

\* encodeURIComponent of a text
RECURSIVE EncodeURIComponent(_)
EncodeURIComponent(text) ==
  IF text = <<>> THEN <<>> ELSE EncodeChar(Head(text)) \o EncodeURIComponent(Tail(text))

\* variant of WaLink that offers the link for completed consultations only
WaLinkStatusGated(c, p) ==
  LET phone == Phone(p)
  IN IF Truthy(phone) /\ StatusOrPending(c.status) = "completed"
     THEN << [to |-> phone, name |-> OrEmpty(p.name), video_url |-> c.video_url,
              at |-> c.scheduled_at, text |-> EncodeURIComponent(Message(c, p))] >>
     ELSE <<>>

\* the link is <<>> when undefined, else a one-element tuple holding its parts:
\* the addressee, the three pieces the message template is filled with, and the
\* text parameter
WaLink(c, p) ==
  LET phone == Phone(p)
  IN IF Truthy(phone)
     THEN << [to |-> phone, name |-> OrEmpty(p.name), video_url |-> c.video_url,
              at |-> c.scheduled_at, text |-> EncodeURIComponent(Message(c, p))] >>
     ELSE <<>>

\* the WhatsApp cell renders the anchor when waLink is truthy, else "No phone"
CanNotify(c, p) == WaLink(c, p) /= <<>>

PatientIds == 1..NumPatients
ConsIds == 1..NumCons
\* loadAll calls in flight: those of the mount and the timer, and those of handlers
LoadSlots == DOMAIN loads
\* the calls of async handlers that can be under way together
CallSlots == DOMAIN calls

\* the signed-in doctor (useAuth().user)
user == [email |-> DoctorEmail, role |-> "doctor"]

\* ------------------------------------------------------- record store seed
SeedContact(p) == IF p % 2 = 1 THEN <<"+", "9", " ", "1">> ELSE <<>>

SeedPatient(p) ==
  [id |-> p, name |-> <<"P">>, contact |-> SeedContact(p),
   assigned_doctor_email |-> IF p % 2 = 1 THEN DoctorEmail ELSE OtherEmail]

\* a consultation as scheduling creates it: pending, no notes
SeedConsultation(c) ==
  [id |-> c, patient_id |-> (((c - 1) \div 2) % NumPatients) + 1,
   scheduled_at |-> IF c % 2 = 1 THEN <<c>> ELSE <<>>,
   video_url |-> <<"v">>, status |-> "pending", doctor_notes |-> None]

\* a loadAll call: origin holds the id of the consultation whose save made the call,
\* if a handler made it
IdleLoad == [phase |-> "idle", origin |-> <<>>, pData |-> <<>>, cData |-> <<>>]
SentLoad(origin) == [phase |-> "sent", origin |-> origin, pData |-> <<>>, cData |-> <<>>]

\* an observation of the last action: op names it, cons holds the consultation it
\* acted on (for an update: as stored when the request was made), body the update
\* request, contact the held patient's contact, outcome what the action did
Event(op, c, body, contact, outcome) ==
  [op |-> op, cons |-> <<c>>, body |-> body, contact |-> contact, outcome |-> outcome]

NoEvent == [op |-> "none", cons |-> <<>>, body |-> <<>>, contact |-> None,
            outcome |-> "none"]
NoGateOut == [op |-> "none", print |-> FALSE, notify |-> FALSE, link |-> <<>>]

GateIdle ==
  /\ gateC = SeedConsultation(1)
  /\ gateP = SeedPatient(1)
  /\ gateOut = NoGateOut

\* latestByPatient over no consultations: the loop has nothing to do
LatIdle ==
  /\ latIn = << >>
  /\ latPos = 1
  /\ latMap = [p \in PatientIds |-> << >>]
  /\ latMapId = [p \in PatientIds |-> << >>]
  /\ latStep = << >>

\* AuthProvider mounted over an empty localStorage: nobody is signed in
SignedOut ==
  /\ token = << >>
  /\ sessionUser = << >>
  /\ lsToken = << >>
  /\ lsUser = << >>
  /\ authHeader = << >>
  /\ authEvent = [op |-> "none", cred |-> << >>]

\* no sales page is mounted
SalesIdle == doctors = << >>

\* the router stays where the mounted page is
RouteIdle == route = "/" /\ hops = 0

\* the forms of the sales page as useState creates them
EmptyForm == [name |-> <<>>, age |-> <<>>, contact |-> <<>>, notes |-> <<>>]
EmptyAssign == [patient_id |-> <<>>, doctor_email |-> <<>>]
EmptySchedule == [patient_id |-> <<>>, scheduled_at |-> <<>>]
NoRequest == [op |-> "none", outcome |-> "none"]

\* a call of an async handler: the request it sent when the button was clicked, the
\* row it was clicked on when the request is built from what the row shows, and,
\* once the request is answered, how it was answered
IdleCall == [phase |-> "idle", op |-> "none", cons |-> <<>>, body |-> <<>>,
             ok |-> FALSE, event |-> <<>>]
SentCall(op, c, body, event) ==
  [phase |-> "sent", op |-> op, cons |-> c, body |-> <<body>>, ok |-> FALSE,
   event |-> event]

\* no handler is under way
CallsIdle == calls = [k \in 1..MaxCalls |-> IdleCall]

\* the pages whose texts do not depend on the browser run in one
EnvIdle == browser = [locale |-> "en-US", zone |-> "UTC", gap |-> " "]

\* nobody has touched the forms of the sales page
FormIdle ==
  /\ salesPage = "Sales.tsx"
  /\ form = EmptyForm
  /\ assign = EmptyAssign
  /\ schedule = EmptySchedule
  /\ salesToast = ""
  /\ request = NoRequest

\* the doctor pages: the update-panel page, the inline page of part_000 and the
\* inline page of Doctor.tsx line 350
DoctorViews == {"panel", "inline", "inline2"}
Inline == view \in {"inline", "inline2"}

\* the state right after the page mounts: nothing held, the first loadAll sent; n
\* calls of handlers can be under way together
MountedWith(n) ==
  /\ view \in DoctorViews
  /\ patients = {}
  /\ consultations = << >>
  /\ openPanelId = NoId
  /\ notesInput = <<>>
  /\ noteDraft = [c \in ConsIds |-> None]
  /\ statusDraft = [c \in ConsIds |-> NoStatus]
  /\ loading = TRUE
  /\ toast = ""
  /\ loads = [l \in 1..(MaxLoads + n) |-> IF l = 1 THEN SentLoad(<<>>) ELSE IdleLoad]
  /\ lastEvent = NoEvent

Mounted == MountedWith(MaxCalls)

\* the store holds freshly scheduled consultations
Init ==
  /\ srvPatients = [p \in PatientIds |-> SeedPatient(p)]
  /\ srvConsultations = [c \in ConsIds |-> SeedConsultation(c)]
  /\ serverFilters \in BOOLEAN
  /\ Mounted
  /\ GateIdle
  /\ LatIdle
  /\ SignedOut
  /\ RouteIdle
  /\ FormIdle
  /\ EnvIdle
  /\ CallsIdle
  /\ SalesIdle

\* a consultation a doctor has completed with notes
DoneConsultation(c) ==
  [SeedConsultation(c) EXCEPT !.status = "completed", !.doctor_notes = <<"a">>]

\* the store holds consultations that are freshly scheduled or properly completed
\* and patients created with or without a contact
InitActions ==
  /\ srvPatients \in [PatientIds -> UNION {{[SeedPatient(p) EXCEPT !.contact = k] :
                                              k \in {None, <<>>, SeedContact(1)}} :
                                            p \in PatientIds}]
  /\ \A p \in PatientIds : srvPatients[p].id = p
  /\ srvConsultations \in [ConsIds -> UNION {{SeedConsultation(c), DoneConsultation(c)} :
                                               c \in ConsIds}]
  /\ \A c \in ConsIds : srvConsultations[c].id = c
  /\ serverFilters \in BOOLEAN
  /\ Mounted
  /\ GateIdle
  /\ LatIdle
  /\ SignedOut
  /\ RouteIdle
  /\ FormIdle
  /\ EnvIdle
  /\ CallsIdle
  /\ SalesIdle

\* ------------------------------------------------------------ record store
\* GET /patients/list as the store answers a doctor
ListPatients ==
  IF serverFilters
  THEN {srvPatients[p] : p \in {q \in PatientIds :
                                 srvPatients[q].assigned_doctor_email = user.email}}
  ELSE {srvPatients[p] : p \in PatientIds}

InDoctorScope(c) ==
  srvPatients[c.patient_id].assigned_doctor_email = user.email

\* GET /consultations/list as the store answers a doctor, in id order
ListConsultations ==
  LET all == [i \in DOMAIN srvConsultations |-> srvConsultations[i]]
  IN IF serverFilters THEN SelectSeq(all, InDoctorScope) ELSE all

\* PATCH /consultations/update: the fields present in the body replace the stored ones
ApplyPatch(cons, body) ==
  [cons EXCEPT !.doctor_notes = IF body.notes = None THEN @ ELSE body.notes,
               !.status = IF body.status = NoStatus THEN @ ELSE body.status]

\* another session's sales user assigns a doctor to a patient
EnvAssign(p, e) ==
  /\ srvPatients[p].assigned_doctor_email /= e
  /\ srvPatients' = [srvPatients EXCEPT ![p].assigned_doctor_email = e]
  /\ UNCHANGED <<srvConsultations, serverFilters, pageVars, logVars, gateVars, latVars, authVars, salesVars, routeVars, formVars, envVars, callVars>>

\* what the doctor can type into a notes field
NotesValues == {<<>>, <<" ">>, <<"a">>}

\* the bodies the doctor pages send PATCH /consultations/update with: notes typed
\* or left out, a status chosen or left out
UpdateBodies(c) ==
  [consultation_id : {c}, notes : NotesValues \cup {None}, status : Statuses \cup {NoStatus}]

\* a doctor page of another session saves a consultation and the store applies it
EnvUpdate(c, body) ==
  /\ srvConsultations' = [srvConsultations EXCEPT ![c] = ApplyPatch(@, body)]
  /\ UNCHANGED <<srvPatients, serverFilters, pageVars, logVars, gateVars, latVars,
                 authVars, salesVars, routeVars, formVars, envVars, callVars>>

\* ----------------------------------------------------------------- loadAll
\* patientById[c.patient_id] / patients[c.patient_id]
PatientById(id) ==
  IF \E p \in patients : p.id = id
  THEN CHOOSE p \in patients : p.id = id
  ELSE NoPatient

HeldIds == {consultations[i].id : i \in 1..Len(consultations)}
HeldRows == {consultations[i] : i \in 1..Len(consultations)}

FreeSlots == {l \in DOMAIN loads : loads[l].phase = "idle"}
FreeCalls == {k \in DOMAIN calls : calls[k].phase = "idle"}

\* loadAll calls in flight made by the mount or the timer, and made by handlers
TimerLoads == {l \in DOMAIN loads : loads[l].phase = "sent" /\ loads[l].origin = <<>>}
HandlerLoads == {l \in DOMAIN loads : loads[l].phase = "sent" /\ loads[l].origin /= <<>>}

\* handler calls that have not ended: they await the store, or their loadAll
Busy == Cardinality(DOMAIN calls \ FreeCalls) + Cardinality(HandlerLoads)

\* the user clicks a button that sends a request while fewer handler calls are
\* under way than there are call slots
CanClick == Busy < Cardinality(DOMAIN calls)

NextCall == CHOOSE k \in FreeCalls : \A m \in FreeCalls : k <= m
NextSlot == CHOOSE l \in FreeSlots : \A m \in FreeSlots : l <= m

\* the two GETs of Promise.all go out together
StartLoad(l, origin) ==
  /\ loads' = [loads EXCEPT ![l] = SentLoad(origin)]
  /\ loading' = IF Inline THEN TRUE ELSE loading

\* the loadAll calls of the mount and the timer that can be in flight together: the
\* load slots beside those of the handler calls
TimerSlots == Cardinality(DOMAIN loads) - Cardinality(DOMAIN calls)

\* the 10-second interval of the panel page; the timer fires while fewer than
\* TimerSlots of its calls are in flight
PollLoad(l) ==
  /\ view = "panel"
  /\ Cardinality(TimerLoads) < TimerSlots
  /\ l \in FreeSlots
  /\ l = NextSlot
  /\ StartLoad(l, <<>>)
  /\ UNCHANGED <<storeVars, view, patients, consultations, openPanelId, notesInput,
                 noteDraft, statusDraft, toast, logVars, gateVars, latVars, authVars,
                 salesVars, routeVars, formVars, envVars, callVars>>

ServePatients(l) ==
  /\ loads[l].phase = "sent"
  /\ loads[l].pData = <<>>
  /\ loads' = [loads EXCEPT ![l].pData = <<ListPatients>>]
  /\ UNCHANGED <<storeVars, view, patients, consultations, openPanelId, notesInput,
                 noteDraft, statusDraft, loading, toast, logVars, gateVars, latVars, authVars, salesVars, routeVars, formVars, envVars, callVars>>

ServeConsultations(l) ==
  /\ loads[l].phase = "sent"
  /\ loads[l].cData = <<>>
  /\ loads' = [loads EXCEPT ![l].cData = <<ListConsultations>>]
  /\ UNCHANGED <<storeVars, view, patients, consultations, openPanelId, notesInput,
                 noteDraft, statusDraft, loading, toast, logVars, gateVars, latVars, authVars, salesVars, routeVars, formVars, envVars, callVars>>

\* seed editor drafts from server values
SeedNoteDraft(rows) ==
  [id \in DOMAIN noteDraft |->
     IF \E i \in 1..Len(rows) : rows[i].id = id
     THEN CoalesceEmpty((CHOOSE r \in {rows[i] : i \in 1..Len(rows)} : r.id = id).doctor_notes)
     ELSE None]

SeedStatusDraft(rows) ==
  [id \in DOMAIN statusDraft |->
     IF \E i \in 1..Len(rows) : rows[i].id = id
     THEN StatusOrPending((CHOOSE r \in {rows[i] : i \in 1..Len(rows)} : r.id = id).status)
     ELSE NoStatus]

\* both responses arrived: the page state is replaced from them
LoadResolve(l) ==
  /\ loads[l].phase = "sent"
  /\ loads[l].pData /= <<>>
  /\ loads[l].cData /= <<>>
  /\ patients' = loads[l].pData[1]
  /\ consultations' = loads[l].cData[1]
  /\ IF Inline
     THEN /\ noteDraft' = SeedNoteDraft(loads[l].cData[1])
          /\ statusDraft' = SeedStatusDraft(loads[l].cData[1])
          /\ loading' = FALSE
     ELSE UNCHANGED <<noteDraft, statusDraft, loading>>
  /\ loads' = [loads EXCEPT ![l] = IdleLoad]
  /\ UNCHANGED <<storeVars, view, openPanelId, notesInput, toast, logVars, gateVars, latVars, authVars, salesVars, routeVars, formVars, envVars, callVars>>

\* variant of LoadReject that stores the responses that did arrive
LoadRejectKeepsArrived(l) ==
  /\ loads[l].phase = "sent"
  /\ loads[l].pData = <<>> \/ loads[l].cData = <<>>
  /\ loads' = [loads EXCEPT ![l] = IdleLoad]
  /\ patients' = IF loads[l].pData /= <<>> THEN loads[l].pData[1] ELSE patients
  /\ consultations' = IF loads[l].cData /= <<>> THEN loads[l].cData[1] ELSE consultations
  /\ toast' = IF view = "inline" THEN "Failed to load consultations" ELSE toast
  /\ loading' = IF Inline THEN FALSE ELSE loading
  /\ UNCHANGED <<storeVars, view, openPanelId, notesInput, noteDraft, statusDraft,
                 logVars, gateVars, latVars, authVars, salesVars, routeVars, formVars, envVars, callVars>>

\* one of the two requests failed: the panel page does nothing, the inline page of
\* part_000 shows a toast and ends loading, its copy in Doctor.tsx ends loading
LoadReject(l) ==
  /\ loads[l].phase = "sent"
  /\ loads[l].pData = <<>> \/ loads[l].cData = <<>>
  /\ loads' = [loads EXCEPT ![l] = IdleLoad]
  /\ toast' = IF view = "inline" THEN "Failed to load consultations" ELSE toast
  /\ loading' = IF Inline THEN FALSE ELSE loading
  /\ UNCHANGED <<storeVars, view, patients, consultations, openPanelId, notesInput,
                 noteDraft, statusDraft, logVars, gateVars, latVars, authVars, salesVars, routeVars, formVars, envVars, callVars>>

\* ------------------------------------------------------- doctor panel page
OpenUpdatePanel(c) ==
  /\ view = "panel"
  /\ c \in HeldRows
  /\ openPanelId' = IF openPanelId = c.id THEN NoId ELSE c.id
  /\ notesInput' = OrEmpty(c.doctor_notes)
  /\ UNCHANGED <<storeVars, view, patients, consultations, noteDraft, statusDraft,
                 loading, toast, loads, logVars, gateVars, latVars, authVars, salesVars, routeVars, formVars, envVars, callVars>>

\* onChange of the panel textarea
TypeNotes(s) ==
  /\ view = "panel"
  /\ openPanelId \in HeldIds
  /\ notesInput /= s
  /\ notesInput' = s
  /\ UNCHANGED <<storeVars, view, patients, consultations, openPanelId, noteDraft,
                 statusDraft, loading, toast, loads, logVars, gateVars, latVars, authVars, salesVars, routeVars, formVars, envVars, callVars>>

CancelPanel ==
  /\ view = "panel"
  /\ openPanelId \in HeldIds
  /\ openPanelId' = NoId
  /\ UNCHANGED <<storeVars, view, patients, consultations, notesInput, noteDraft,
                 statusDraft, loading, toast, loads, logVars, gateVars, latVars, authVars, salesVars, routeVars, formVars, envVars, callVars>>

\* the request body of patchConsultation
PatchBody(c, markDone) ==
  [consultation_id |-> c.id,
   notes |-> CoalesceEmpty(notesInput),
   status |-> IF markDone THEN "completed" ELSE NoStatus]

\* variant of PatchConsultation that closes the panel and clears the notes before
\* the request is answered
PatchConsultationOptimistic(c, markDone) ==
  /\ view = "panel"
  /\ c \in HeldRows
  /\ openPanelId = c.id
  /\ CanClick
  /\ calls' = [calls EXCEPT ![NextCall] =
                              SentCall("patch", <<>>, PatchBody(c, markDone), <<>>)]
  /\ openPanelId' = NoId
  /\ notesInput' = <<>>
  /\ UNCHANGED <<storeVars, view, patients, consultations, noteDraft, statusDraft,
                 loading, toast, loads, logVars, gateVars, latVars, authVars, salesVars,
                 routeVars, formVars, envVars>>

\* Save Notes / Save & Mark Completed, up to the await: the PATCH is sent
PatchConsultation(c, markDone) ==
  /\ view = "panel"
  /\ c \in HeldRows
  /\ openPanelId = c.id
  /\ CanClick
  /\ calls' = [calls EXCEPT ![NextCall] =
                              SentCall("patch", <<>>, PatchBody(c, markDone), <<>>)]
  /\ UNCHANGED <<storeVars, pageVars, logVars, gateVars, latVars, authVars, salesVars,
                 routeVars, formVars, envVars>>

\* PATCH /consultations/update of a doctor page as the store handles it
ServeUpdate(k, ok) ==
  /\ calls[k].phase = "sent"
  /\ calls[k].op \in {"patch", "update"}
  /\ LET body == calls[k].body[1]
         ev == Event("update", srvConsultations[body.consultation_id], <<body>>, None,
                     IF ok THEN "applied" ELSE "failed")
     IN /\ srvConsultations' =
             IF ok
             THEN [srvConsultations EXCEPT ![body.consultation_id] = ApplyPatch(@, body)]
             ELSE srvConsultations
        /\ lastEvent' = ev
        /\ calls' = [calls EXCEPT ![k].phase = "answered", ![k].ok = ok]
  /\ UNCHANGED <<srvPatients, serverFilters, pageVars, gateVars, latVars, authVars,
                 salesVars, routeVars, formVars, envVars>>

\* patchConsultation after the await: a rejection leaves the handler, unhandled
PatchConsultationResume(k) ==
  /\ calls[k].phase = "answered"
  /\ calls[k].op = "patch"
  /\ calls' = [calls EXCEPT ![k] = IdleCall]
  /\ IF calls[k].ok
     THEN /\ toast' = "U+2705 Consultation Updated Successfully"
          /\ openPanelId' = NoId
          /\ notesInput' = <<>>
          /\ StartLoad(NextSlot, <<calls[k].body[1].consultation_id>>)
     ELSE UNCHANGED <<toast, openPanelId, notesInput, loads, loading>>
  /\ UNCHANGED <<storeVars, view, patients, consultations, noteDraft, statusDraft,
                 logVars, gateVars, latVars, authVars, salesVars, routeVars, formVars,
                 envVars>>

\* the Print button of the panel page: no condition before the window is opened
PrintSummary(c, popup) ==
  /\ view = "panel"
  /\ c \in HeldRows
  /\ lastEvent' = Event("print", c, <<>>, None, IF popup THEN "written" ELSE "blocked")
  /\ UNCHANGED <<storeVars, pageVars, gateVars, latVars, authVars, salesVars, routeVars, formVars, envVars, callVars>>

\* the WhatsApp cell of the panel page: an anchor, or the text "No phone"
ClickWaLink(c) ==
  /\ view = "panel"
  /\ c \in HeldRows
  /\ LET p == PatientById(c.patient_id)
     IN lastEvent' =
          IF CanNotify(c, p)
          THEN Event("notify", c, <<>>, p.contact, "opened")
          ELSE Event("notify", c, <<>>, p.contact, "refused")
  /\ UNCHANGED <<storeVars, pageVars, gateVars, latVars, authVars, salesVars, routeVars, formVars, envVars, callVars>>

\* the timer showToast arms hides the toast
ClearToast ==
  /\ view /= "sales"
  /\ toast /= ""
  /\ toast' = ""
  /\ UNCHANGED <<storeVars, view, patients, consultations, openPanelId, notesInput,
                 noteDraft, statusDraft, loading, loads, logVars, gateVars, latVars, authVars, salesVars, routeVars, formVars, envVars, callVars>>

\* ------------------------------------------------------ doctor inline page
\* onChange of a row's textarea
SetNoteDraft(c, s) ==
  /\ Inline
  /\ ~loading
  /\ c \in HeldRows
  /\ noteDraft[c.id] /= s
  /\ noteDraft' = [noteDraft EXCEPT ![c.id] = s]
  /\ UNCHANGED <<storeVars, view, patients, consultations, openPanelId, notesInput,
                 statusDraft, loading, toast, loads, logVars, gateVars, latVars, authVars, salesVars, routeVars, formVars, envVars, callVars>>

\* onChange of a row's status selector
SetStatusDraft(c, st) ==
  /\ Inline
  /\ ~loading
  /\ c \in HeldRows
  /\ statusDraft[c.id] /= st
  /\ statusDraft' = [statusDraft EXCEPT ![c.id] = st]
  /\ UNCHANGED <<storeVars, view, patients, consultations, openPanelId, notesInput,
                 noteDraft, loading, toast, loads, logVars, gateVars, latVars, authVars, salesVars, routeVars, formVars, envVars, callVars>>

\* the request body of updateConsultation: a draft that is undefined adds no key
UpdateBody(c) ==
  [consultation_id |-> c.id, notes |-> noteDraft[c.id], status |-> statusDraft[c.id]]

\* the Save button of a row, up to the await: the PATCH is sent
UpdateConsultation(c) ==
  /\ Inline
  /\ ~loading
  /\ c \in HeldRows
  /\ CanClick
  /\ calls' = [calls EXCEPT ![NextCall] = SentCall("update", <<c>>, UpdateBody(c), <<>>)]
  /\ UNCHANGED <<storeVars, pageVars, logVars, gateVars, latVars, authVars, salesVars,
                 routeVars, formVars, envVars>>

\* updateConsultation after the await; the copy in Doctor.tsx has no catch
UpdateConsultationResume(k) ==
  /\ calls[k].phase = "answered"
  /\ calls[k].op = "update"
  /\ calls' = [calls EXCEPT ![k] = IdleCall]
  /\ IF calls[k].ok
     THEN /\ toast' = "Saved U+2705"
          /\ StartLoad(NextSlot, <<calls[k].body[1].consultation_id>>)
     ELSE /\ toast' = IF view = "inline" THEN "Save failed" ELSE toast
          /\ UNCHANGED <<loads, loading>>
  /\ UNCHANGED <<storeVars, view, patients, consultations, openPanelId, notesInput,
                 noteDraft, statusDraft, logVars, gateVars, latVars, authVars, salesVars,
                 routeVars, formVars, envVars>>

\* the WhatsApp button of a row, up to the await: the link is requested from the store
OpenWhatsApp(c) ==
  /\ Inline
  /\ ~loading
  /\ c \in HeldRows
  /\ CanClick
  /\ lastEvent' = Event("notify", c, <<>>, PatientById(c.patient_id).contact, "requested")
  /\ calls' = [calls EXCEPT ![NextCall] =
                              SentCall("whatsapp", <<c>>, [consultation_id |-> c.id],
                                       <<lastEvent'>>)]
  /\ UNCHANGED <<storeVars, pageVars, gateVars, latVars, authVars, salesVars, routeVars,
                 formVars, envVars>>

\* openWhatsApp after the await: the window is opened on the link, or the request
\* failed; the copy in Doctor.tsx has no catch
OpenWhatsAppResume(k, ok) ==
  /\ Inline
  /\ calls[k].phase = "sent"
  /\ calls[k].op = "whatsapp"
  /\ calls' = [calls EXCEPT ![k] = IdleCall]
  /\ lastEvent' = [calls[k].event[1] EXCEPT !.outcome = IF ok THEN "opened" ELSE "error"]
  /\ toast' = IF ~ok /\ view = "inline" THEN "WhatsApp link error" ELSE toast
  /\ UNCHANGED <<storeVars, view, patients, consultations, openPanelId, notesInput,
                 noteDraft, statusDraft, loading, loads, gateVars, latVars, authVars,
                 salesVars, routeVars, formVars, envVars>>

\* the Print button of a row; the button is disabled on the same condition
PrintConsultation(c, popup) ==
  /\ Inline
  /\ ~loading
  /\ c \in HeldRows
  /\ IF ~CanPrint(c)
     THEN /\ lastEvent' = Event("print", c, <<>>, None, "refused")
          /\ toast' = IF view = "inline"
                      THEN "Complete the consultation & add notes to print"
                      ELSE "Complete the consultation and add notes to print."
     ELSE IF ~popup
     THEN /\ lastEvent' = Event("print", c, <<>>, None, "blocked")
          /\ toast' = IF view = "inline"
                      THEN "Popup blocked U+2014 allow popups to print"
                      ELSE "Popup blocked U+2014 allow popups to print."
     ELSE /\ lastEvent' = Event("print", c, <<>>, None, "written")
          /\ UNCHANGED toast
  /\ UNCHANGED <<storeVars, view, patients, consultations, openPanelId, notesInput,
                 noteDraft, statusDraft, loading, loads, gateVars, latVars, authVars,
                 salesVars, routeVars, formVars, envVars, callVars>>

\* ---------------------------------------------------------- specifications
LoadStep ==
  \/ \E l \in LoadSlots : PollLoad(l)
  \/ \E l \in LoadSlots : ServePatients(l)
  \/ \E l \in LoadSlots : ServeConsultations(l)
  \/ \E l \in LoadSlots : LoadResolve(l)
  \/ \E l \in LoadSlots : LoadReject(l)

\* a freshly mounted doctor page over a store that scopes its lists
InitComplete ==
  /\ Init
  /\ serverFilters = TRUE

\* the panel page is mounted
InitPanel ==
  /\ InitComplete
  /\ view = "panel"

\* the doctor works on the panel page: loads, the update panel, saving and the
\* toast timer
Next ==
  \/ LoadStep
  \/ \E c \in HeldRows : OpenUpdatePanel(c)
  \/ \E s \in NotesValues : TypeNotes(s)
  \/ CancelPanel
  \/ \E c \in HeldRows, markDone \in BOOLEAN : PatchConsultation(c, markDone)
  \/ \E k \in CallSlots, ok \in BOOLEAN : ServeUpdate(k, ok)
  \/ \E k \in CallSlots : PatchConsultationResume(k)
  \/ ClearToast

Spec == InitPanel /\ [][Next]_vars

\* a page with inline editors is mounted
InitInline ==
  /\ InitComplete
  /\ Inline

\* the doctor works on a page with inline editors: loads, the row editors, saving,
\* the WhatsApp and Print buttons and the toast timer
NextInline ==
  \/ \E l \in LoadSlots : ServePatients(l)
  \/ \E l \in LoadSlots : ServeConsultations(l)
  \/ \E l \in LoadSlots : LoadResolve(l)
  \/ \E l \in LoadSlots : LoadReject(l)
  \/ \E c \in HeldRows, s \in NotesValues : SetNoteDraft(c, s)
  \/ \E c \in HeldRows, st \in Statuses : SetStatusDraft(c, st)
  \/ \E c \in HeldRows : UpdateConsultation(c)
  \/ \E k \in CallSlots, ok \in BOOLEAN : ServeUpdate(k, ok)
  \/ \E k \in CallSlots : UpdateConsultationResume(k)
  \/ \E c \in HeldRows : OpenWhatsApp(c)
  \/ \E k \in CallSlots, ok \in BOOLEAN : OpenWhatsAppResume(k, ok)
  \/ \E c \in HeldRows, popup \in BOOLEAN : PrintConsultation(c, popup)
  \/ ClearToast

SpecInline == InitInline /\ [][NextInline]_vars

\* the panel page is mounted; either one loadAll of the timer and one handler call
\* can be under way together, or MaxOverlap handler calls between two firings of
\* the timer
InitOverlap ==
  /\ srvPatients = [p \in PatientIds |-> SeedPatient(p)]
  /\ srvConsultations = [c \in ConsIds |-> SeedConsultation(c)]
  /\ serverFilters = TRUE
  /\ \/ Mounted /\ CallsIdle
     \/ MountedWith(MaxOverlap - MaxLoads) /\ calls = [k \in 1..MaxOverlap |-> IdleCall]
  /\ view = "panel"
  /\ GateIdle
  /\ LatIdle
  /\ SignedOut
  /\ RouteIdle
  /\ FormIdle
  /\ EnvIdle
  /\ SalesIdle

\* notes texts without whitespace
PlainNotes == {<<>>, <<"a">>}

\* the bodies patchConsultation sends for such notes
PanelBodies(c) ==
  [consultation_id : {c}, notes : PlainNotes, status : {NoStatus, "completed"}]

\* the doctor works on the panel page and clicks Save again before the call of an
\* earlier click has ended, while panel pages of other sessions save too
NextOverlap ==
  \/ LoadStep
  \/ \E c \in HeldRows : OpenUpdatePanel(c)
  \/ \E s \in PlainNotes : TypeNotes(s)
  \/ CancelPanel
  \/ \E c \in HeldRows, markDone \in BOOLEAN : PatchConsultation(c, markDone)
  \/ \E k \in CallSlots, ok \in BOOLEAN : ServeUpdate(k, ok)
  \/ \E k \in CallSlots : PatchConsultationResume(k)
  \/ ClearToast
  \/ \E c \in ConsIds : \E body \in PanelBodies(c) : EnvUpdate(c, body)

SpecOverlap == InitOverlap /\ [][NextOverlap]_vars

\* the inline page over a store with several consultations of the doctor's patients
EditorRows == 1..MaxRows

InitEditor ==
  /\ srvPatients = [p \in PatientIds |-> SeedPatient(p)]
  /\ srvConsultations = [c \in EditorRows |-> SeedConsultation(c)]
  /\ serverFilters = TRUE
  /\ Inline
  /\ patients = {}
  /\ consultations = << >>
  /\ openPanelId = NoId
  /\ notesInput = <<>>
  /\ noteDraft = [c \in EditorRows |-> None]
  /\ statusDraft = [c \in EditorRows |-> NoStatus]
  /\ loading = TRUE
  /\ toast = ""
  /\ loads = [l \in 1..(MaxLoads + MaxCalls) |-> IF l = 1 THEN SentLoad(<<>>) ELSE IdleLoad]
  /\ lastEvent = NoEvent
  /\ GateIdle
  /\ LatIdle
  /\ SignedOut
  /\ RouteIdle
  /\ FormIdle
  /\ EnvIdle
  /\ CallsIdle
  /\ SalesIdle

\* the status the doctor picks in the select of a row of this page
EditorStatuses == {"completed"}

\* the doctor edits the drafts of the rows and saves them
NextEditor ==
  \/ \E l \in LoadSlots : ServePatients(l)
  \/ \E l \in LoadSlots : ServeConsultations(l)
  \/ \E l \in LoadSlots : LoadResolve(l)
  \/ \E l \in LoadSlots : LoadReject(l)
  \/ \E c \in HeldRows, s \in PlainNotes : SetNoteDraft(c, s)
  \/ \E c \in HeldRows, st \in EditorStatuses : SetStatusDraft(c, st)
  \/ \E c \in HeldRows : UpdateConsultation(c)
  \/ \E k \in CallSlots, ok \in BOOLEAN : ServeUpdate(k, ok)
  \/ \E k \in CallSlots : UpdateConsultationResume(k)
  \/ ClearToast

SpecEditor == InitEditor /\ [][NextEditor]_vars

\* the doctor page reloads while sales users of other sessions reassign patients
NextScope ==
  \/ LoadStep
  \/ \E p \in PatientIds, e \in {DoctorEmail, OtherEmail} : EnvAssign(p, e)
  \/ ClearToast

SpecScope == Init /\ [][NextScope]_vars

\* the doctor prints and notifies from the rows the page holds
NextActions ==
  \/ LoadStep
  \/ \E c \in HeldRows, popup \in BOOLEAN : PrintSummary(c, popup)
  \/ \E c \in HeldRows : ClickWaLink(c)
  \/ ClearToast
  \/ \E c \in HeldRows : OpenWhatsApp(c)
  \/ \E k \in CallSlots, ok \in BOOLEAN : OpenWhatsAppResume(k, ok)
  \/ \E c \in HeldRows, popup \in BOOLEAN : PrintConsultation(c, popup)

SpecActions == InitActions /\ [][NextActions]_vars

\* ------------------------------------------------- gates as pure functions
NotesAlphabet == {" ", "U+00A0", "a"}
ContactAlphabet == {" ", "\r", "+", "9"}

\* a meeting address as the server makes them
MeetUrl ==
  <<"h", "t", "t", "p", "s", ":", "/", "/", "m", ".", "i", "o", "/", "x", "?", "a",
    "=", "1", "&", "b">>

\* all texts over an alphabet, up to MaxLen characters
TextsUpTo(alphabet, n) == UNION {[1..k -> alphabet] : k \in 0..n}

\* scheduled_at as the server sends it: absent, an instant (two in one second, one
\* half a day on), or a text Date cannot parse
GateTimes == {<<>>, <<1>>, <<2>>, <<45000000>>, <<NotADate>>}

GateConsultations ==
  [id : {1}, patient_id : {1}, scheduled_at : GateTimes, video_url : {<<"v">>, MeetUrl},
   status : {NoStatus} \cup Statuses,
   doctor_notes : {None} \cup TextsUpTo(NotesAlphabet, MaxLen)]

GatePatients ==
  [id : {1}, name : {None, <<"P">>},
   contact : {None} \cup TextsUpTo(ContactAlphabet, MaxLen),
   assigned_doctor_email : {DoctorEmail}]

\* the inputs of the gates: every notes text, every contact text, and every
\* message in every browser, each with the other fields at one value
GateInputs ==
  LET plainC == {c \in GateConsultations :
                   c.scheduled_at = <<1>> /\ c.video_url = <<"v">>}
      plainP == {p \in GatePatients : p.name = <<"P">>}
      plain == [locale |-> "en-US", zone |-> "UTC", gap |-> " "]
  IN {<<c, p, plain>> :
        c \in plainC, p \in {q \in plainP : q.contact = <<"+", "9">>}}
       \cup {<<c, p, plain>> :
               c \in {d \in plainC : d.doctor_notes = None}, p \in plainP}
       \cup {<<c, p, b>> :
               c \in {d \in GateConsultations : d.doctor_notes = None},
               p \in {q \in GatePatients : q.contact = <<"+", "9">>},
               b \in Browsers}

InitGate ==
  /\ srvPatients = [p \in PatientIds |-> SeedPatient(p)]
  /\ srvConsultations = [c \in ConsIds |-> SeedConsultation(c)]
  /\ serverFilters = TRUE
  /\ Mounted
  /\ view = "panel"
  /\ \E i \in GateInputs : gateC = i[1] /\ gateP = i[2] /\ browser = i[3]
  /\ CallsIdle
  /\ gateOut = NoGateOut
  /\ LatIdle
  /\ SignedOut
  /\ RouteIdle
  /\ FormIdle
  /\ SalesIdle

\* the condition of the row's Print button computed for the consultation (doctor
\* inline page); nothing of the page changes
GatePrint ==
  /\ gateOut' = [op |-> "canPrint", print |-> CanPrint(gateC), notify |-> FALSE,
                 link |-> <<>>]
  /\ UNCHANGED <<storeVars, pageVars, logVars, gateC, gateP, latVars, authVars, salesVars, routeVars, formVars, envVars, callVars>>

\* canPrint of a patient's row computed for the consultation (sales per-patient
\* page); nothing of the page changes
GatePrintSales ==
  /\ gateOut' = [op |-> "canPrintSales", print |-> CanPrintSales(gateC),
                 notify |-> FALSE, link |-> <<>>]
  /\ UNCHANGED <<storeVars, pageVars, logVars, gateC, gateP, latVars, authVars, salesVars, routeVars, formVars, envVars, callVars>>

\* the WhatsApp cell computed for the consultation and its patient
GateBuild ==
  /\ gateOut' = [op |-> "build", print |-> FALSE, notify |-> CanNotify(gateC, gateP),
                 link |-> WaLink(gateC, gateP)]
  /\ UNCHANGED <<storeVars, pageVars, logVars, gateC, gateP, latVars, authVars, salesVars, routeVars, formVars, envVars, callVars>>

NextGate == GatePrint \/ GatePrintSales \/ GateBuild

SpecGate == InitGate /\ [][NextGate]_vars

\* --------------------------------------------------------------- sales page
\* GET /patients/list as the store answers a sales user
ListAllPatients == {srvPatients[p] : p \in PatientIds}

\* GET /consultations/list as the store answers a sales user, in id order
ListAllConsultations == [i \in ConsIds |-> srvConsultations[i]]

\* GET /users?role=doctor
ListDoctors == <<[email |-> DoctorEmail], [email |-> OtherEmail]>>

\* a loadAll / loadData call of the sales page: origin names the handler that made it
SalesIdleLoad ==
  [phase |-> "idle", origin |-> <<>>, pData |-> <<>>, cData |-> <<>>, dData |-> <<>>]
SalesSentLoad(origin) ==
  [phase |-> "sent", origin |-> origin, pData |-> <<>>, cData |-> <<>>, dData |-> <<>>]

\* the sales page right after it mounts: nothing held, the first loadAll sent
SalesMounted ==
  /\ view = "sales"
  /\ patients = {}
  /\ consultations = << >>
  /\ doctors = << >>
  /\ openPanelId = NoId
  /\ notesInput = <<>>
  /\ noteDraft = [c \in ConsIds |-> None]
  /\ statusDraft = [c \in ConsIds |-> NoStatus]
  /\ loading = FALSE
  /\ toast = ""
  /\ loads = [l \in 1..(MaxLoads + MaxCalls) |->
                IF l = 1 THEN SalesSentLoad(<<>>) ELSE SalesIdleLoad]
  /\ lastEvent = NoEvent

InitSales ==
  /\ srvPatients = [p \in PatientIds |-> SeedPatient(p)]
  /\ srvConsultations = [c \in ConsIds |-> SeedConsultation(c)]
  /\ serverFilters = TRUE
  /\ SalesMounted
  /\ GateIdle
  /\ LatIdle
  /\ SignedOut
  /\ RouteIdle
  /\ FormIdle
  /\ EnvIdle
  /\ CallsIdle

\* setInterval(loadAll, 10000); the timer fires while fewer than MaxLoads of its
\* calls are in flight
SalesPollLoad(l) ==
  /\ view = "sales"
  /\ Cardinality(TimerLoads) < MaxLoads
  /\ l \in FreeSlots
  /\ l = NextSlot
  /\ loads' = [loads EXCEPT ![l] = SalesSentLoad(<<>>)]
  /\ UNCHANGED <<storeVars, view, patients, consultations, openPanelId, notesInput,
                 noteDraft, statusDraft, loading, toast, logVars, gateVars, latVars,
                 authVars, salesVars, routeVars, formVars, envVars, callVars>>

\* one of the three GETs of Promise.all is answered
SalesServe(l, k) ==
  /\ view = "sales"
  /\ loads[l].phase = "sent"
  /\ \/ k = "patients" /\ loads[l].pData = <<>>
        /\ loads' = [loads EXCEPT ![l].pData = <<ListAllPatients>>]
     \/ k = "consultations" /\ loads[l].cData = <<>>
        /\ loads' = [loads EXCEPT ![l].cData = <<ListAllConsultations>>]
     \/ k = "doctors" /\ loads[l].dData = <<>>
        /\ loads' = [loads EXCEPT ![l].dData = <<ListDoctors>>]
  /\ UNCHANGED <<storeVars, view, patients, consultations, openPanelId, notesInput,
                 noteDraft, statusDraft, loading, toast, logVars, gateVars, latVars,
                 authVars, salesVars, routeVars, formVars, envVars, callVars>>

\* an observation of a loadAll that ended, and how
LoadEvent(l, outcome) ==
  [op |-> "load", cons |-> << >>, body |-> << >>, contact |-> None, outcome |-> outcome]

\* variant of SalesLoadResolve that keeps only the patients with a doctor assigned
SalesLoadResolveAssigned(l) ==
  /\ view = "sales"
  /\ loads[l].phase = "sent"
  /\ loads[l].pData /= <<>> /\ loads[l].cData /= <<>> /\ loads[l].dData /= <<>>
  /\ patients' = {p \in loads[l].pData[1] : p.assigned_doctor_email = DoctorEmail}
  /\ consultations' = loads[l].cData[1]
  /\ doctors' = loads[l].dData[1]
  /\ lastEvent' = LoadEvent(l, "resolved")
  /\ loads' = [loads EXCEPT ![l] = SalesIdleLoad]
  /\ UNCHANGED <<storeVars, view, openPanelId, notesInput, noteDraft, statusDraft,
                 loading, toast, gateVars, latVars, authVars, routeVars, formVars, envVars, callVars>>

\* the three responses arrived: setPatients, setConsultations, setDoctors
SalesLoadResolve(l) ==
  /\ view = "sales"
  /\ loads[l].phase = "sent"
  /\ loads[l].pData /= <<>> /\ loads[l].cData /= <<>> /\ loads[l].dData /= <<>>
  /\ patients' = loads[l].pData[1]
  /\ consultations' = loads[l].cData[1]
  /\ doctors' = loads[l].dData[1]
  /\ lastEvent' = LoadEvent(l, "resolved")
  /\ loads' = [loads EXCEPT ![l] = SalesIdleLoad]
  /\ UNCHANGED <<storeVars, view, openPanelId, notesInput, noteDraft, statusDraft,
                 loading, toast, gateVars, latVars, authVars, routeVars, formVars, envVars, callVars>>

\* one of the three requests failed: the catch branch, silent
SalesLoadReject(l) ==
  /\ view = "sales"
  /\ loads[l].phase = "sent"
  /\ \/ loads[l].pData = <<>> \/ loads[l].cData = <<>> \/ loads[l].dData = <<>>
  /\ lastEvent' = LoadEvent(l, "rejected")
  /\ loads' = [loads EXCEPT ![l] = SalesIdleLoad]
  /\ UNCHANGED <<storeVars, view, patients, consultations, openPanelId, notesInput,
                 noteDraft, statusDraft, loading, toast, gateVars, latVars, authVars,
                 salesVars, routeVars, formVars, envVars, callVars>>

\* the sales page reloads while other sessions change the store
NextSales ==
  \/ \E l \in LoadSlots : SalesPollLoad(l)
  \/ \E l \in LoadSlots, k \in {"patients", "consultations", "doctors"} : SalesServe(l, k)
  \/ \E l \in LoadSlots : SalesLoadResolve(l)
  \/ \E l \in LoadSlots : SalesLoadReject(l)
  \/ \E p \in PatientIds, e \in {DoctorEmail, OtherEmail} : EnvAssign(p, e)
  \/ \E c \in ConsIds : \E body \in UpdateBodies(c) : EnvUpdate(c, body)

SpecSales == InitSales /\ [][NextSales]_vars

\* a doctor page or the sales page is mounted
InitLoads ==
  \/ Init /\ serverFilters = TRUE
  \/ InitSales

\* the pages reload, with loads that fail, while other sessions change the store
NextLoads ==
  \/ view /= "sales" /\ LoadStep
  \/ view /= "sales" /\ ClearToast
  \/ NextSales

SpecLoads == InitLoads /\ [][NextLoads]_vars

\* ------------------------------------------------------------- AuthProvider
Roles == {"sales", "doctor"}
SalesEmail == "sales@crm.com"

\* a dot-separated part of a credential that is not base64 of a JSON object
TextPart == [kind |-> "text", sub |-> NoEmail, role |-> "null"]

\* a dot-separated part that is base64 of the JSON object {sub, role}
ClaimsPart(sub, role) == [kind |-> "claims", sub |-> sub, role |-> role]

\* the empty string: no prefix and no text
EmptyToken == [prefixes |-> 0, parts |-> << >>]

\* data.authorization: the number of leading "Bearer " and the dot-separated parts
Jwt(sub, role) ==
  [prefixes |-> 1, parts |-> <<TextPart, ClaimsPart(sub, role), TextPart>>]

\* what POST /login may answer with: tokens of known and unknown roles, without
\* the "Bearer " prefix, with it once or twice, with a part missing or a payload
\* that is no JSON, "Bearer " alone, or empty
Credentials ==
  {Jwt(e, r) : e \in {SalesEmail, DoctorEmail, OtherEmail}, r \in Roles \cup {"admin"}}
  \cup {[Jwt(SalesEmail, "sales") EXCEPT !.prefixes = 0],
        [Jwt(SalesEmail, "sales") EXCEPT !.prefixes = 2],
        [prefixes |-> 2, parts |-> <<TextPart>>],
        [prefixes |-> 1, parts |-> << >>],
        [prefixes |-> 1, parts |-> <<TextPart>>],
        [prefixes |-> 1, parts |-> <<TextPart, TextPart, TextPart>>],
        [prefixes |-> 1, parts |-> <<TextPart, ClaimsPart(DoctorEmail, "doctor")>>],
        EmptyToken}

\* bearer.split(".")[1] is a string that atob and JSON.parse accept
Decodes(cred) == Len(cred.parts) >= 2 /\ cred.parts[2].kind = "claims"

\* { email: payload.sub, role: payload.role }
UserOf(cred) == [email |-> cred.parts[2].sub, role |-> cred.parts[2].role]

\* if (token): null and the empty string are falsy
TokenTruthy(tok) == tok /= << >> /\ tok[1] /= EmptyToken

\* variant of SetAuth that prepends "Bearer " whatever the token starts with
SetAuthPrepends(tok) ==
  IF TokenTruthy(tok)
  THEN <<[tok[1] EXCEPT !.prefixes = @ + 1]>>
  ELSE << >>

\* setAuth: the header set from a token, deleted for a falsy one
SetAuth(tok) ==
  IF TokenTruthy(tok)
  THEN <<IF tok[1].prefixes >= 1 THEN tok[1] ELSE [tok[1] EXCEPT !.prefixes = 1]>>
  ELSE << >>

AuthEvent(op, cred) == [op |-> op, cred |-> cred]

\* ------------------------------------------------------------------ router
\* "/other" stands for every path that only the catch-all route matches
Routes == {"/", "/login", "/sales", "/doctor", "/other"}

\* user.role === "sales" ? "/sales" : "/doctor"
HomeOf(u) == IF u[1].role = "sales" THEN "/sales" ELSE "/doctor"

\* variant of Guard that compares no role
GuardAnyRole(role, u) ==
  IF u = << >> THEN <<"/login">> ELSE << >>

\* Guard: << >> when the children are rendered, else the target of the Navigate
Guard(role, u) ==
  IF u = << >> THEN <<"/login">>
  ELSE IF u[1].role /= role THEN <<HomeOf(u)>>
  ELSE << >>

\* Root: always a Navigate
Root(u) == IF u = << >> THEN <<"/login">> ELSE <<HomeOf(u)>>

\* the element of the route that matches the location: << >> when it renders a
\* page, else the target of its Navigate
RedirectOf(r, u) ==
  CASE r = "/" -> Root(u)
    [] r = "/login" -> << >>
    [] r = "/sales" -> Guard("sales", u)
    [] r = "/doctor" -> Guard("doctor", u)
    [] OTHER -> <<"/">>

\* the page on screen, "none" while a Navigate is rendered
Page(r, u) ==
  IF RedirectOf(r, u) /= << >> THEN "none"
  ELSE CASE r = "/login" -> "Login"
         [] r = "/sales" -> "Sales"
         [] r = "/doctor" -> "Doctor"
         [] OTHER -> "none"

\* a rendered Navigate replaces the location; hops stops counting at MaxHops
Redirect ==
  /\ RedirectOf(route, sessionUser) /= << >>
  /\ hops < MaxHops
  /\ route' = RedirectOf(route, sessionUser)[1]
  /\ hops' = hops + 1
  /\ UNCHANGED <<storeVars, pageVars, logVars, gateVars, latVars, authVars, salesVars, formVars, envVars, callVars>>

\* onSubmit of the login form: POST /login goes out
LoginSubmit ==
  /\ Page(route, sessionUser) = "Login"
  /\ authEvent.op /= "submit"
  /\ authEvent' = AuthEvent("submit", << >>)
  /\ UNCHANGED <<token, sessionUser, lsToken, lsUser, authHeader>>
  /\ UNCHANGED <<storeVars, pageVars, logVars, gateVars, latVars, salesVars, routeVars, formVars, envVars, callVars>>

\* login after POST /login answered: the token is kept, then decoded; onSubmit
\* goes to "/" when login returned and stays on the form when it threw
Login(cred) ==
  /\ authEvent.op = "submit"
  /\ token' = <<cred>>
  /\ authHeader' = SetAuth(<<cred>>)
  /\ lsToken' = <<cred>>
  /\ IF Decodes(cred)
     THEN /\ sessionUser' = <<UserOf(cred)>>
          /\ lsUser' = <<UserOf(cred)>>
          /\ authEvent' = AuthEvent("login-ok", <<cred>>)
          /\ route' = "/"
          /\ hops' = 0
     ELSE /\ UNCHANGED <<sessionUser, lsUser, routeVars, formVars, envVars, callVars>>
          /\ authEvent' = AuthEvent("login-threw", <<cred>>)
  /\ UNCHANGED <<storeVars, pageVars, logVars, gateVars, latVars, salesVars, formVars, envVars, callVars>>

\* POST /login failed: login throws before it touches anything
LoginRejected ==
  /\ authEvent.op = "submit"
  /\ authEvent' = AuthEvent("login-rejected", << >>)
  /\ UNCHANGED <<token, sessionUser, lsToken, lsUser, authHeader>>
  /\ UNCHANGED <<storeVars, pageVars, logVars, gateVars, latVars, salesVars, routeVars, formVars, envVars, callVars>>

\* variant of Logout that leaves the localStorage entries in place
LogoutKeepsStorage ==
  /\ Page(route, sessionUser) \in {"Sales", "Doctor"}
  /\ token' = << >>
  /\ sessionUser' = << >>
  /\ authHeader' = SetAuth(<< >>)
  /\ UNCHANGED <<lsToken, lsUser>>
  /\ authEvent' = AuthEvent("logout", token)
  /\ hops' = 0
  /\ UNCHANGED route
  /\ UNCHANGED <<storeVars, pageVars, logVars, gateVars, latVars, salesVars, formVars, envVars, callVars>>

\* logout, from the Logout button of the Sales or Doctor page; the location is left
\* to Guard, and to the reload at "/" the timer makes 100 ms later
Logout ==
  /\ Page(route, sessionUser) \in {"Sales", "Doctor"}
  /\ token' = << >>
  /\ sessionUser' = << >>
  /\ authHeader' = SetAuth(<< >>)
  /\ lsToken' = << >>
  /\ lsUser' = << >>
  /\ authEvent' = AuthEvent("logout", token)
  /\ hops' = 0
  /\ UNCHANGED route
  /\ UNCHANGED <<storeVars, pageVars, logVars, gateVars, latVars, salesVars, formVars, envVars, callVars>>

\* the document is loaded at location r (a URL entered, window.location.replace):
\* AuthProvider starts from localStorage and the effect runs
Reload(r) ==
  /\ token' = lsToken
  /\ sessionUser' = lsUser
  /\ authHeader' = SetAuth(lsToken)
  /\ authEvent' = AuthEvent("reload", << >>)
  /\ route' = r
  /\ hops' = 0
  /\ UNCHANGED <<lsToken, lsUser>>
  /\ UNCHANGED <<storeVars, pageVars, logVars, gateVars, latVars, salesVars, formVars, envVars, callVars>>

\* the application is opened at any location with nothing in localStorage
InitAuth ==
  /\ srvPatients = [p \in PatientIds |-> SeedPatient(p)]
  /\ srvConsultations = [c \in ConsIds |-> SeedConsultation(c)]
  /\ serverFilters = TRUE
  /\ Mounted
  /\ view = "panel"
  /\ GateIdle
  /\ LatIdle
  /\ SalesIdle
  /\ SignedOut
  /\ route \in Routes
  /\ hops = 0
  /\ FormIdle
  /\ EnvIdle
  /\ CallsIdle

NextAuth ==
  \/ Redirect
  \/ LoginSubmit
  \/ \E cred \in Credentials : Login(cred)
  \/ LoginRejected
  \/ Logout
  \/ \E r \in Routes : Reload(r)

SpecAuth == InitAuth /\ [][NextAuth]_vars

\* setAuth called with a token, outside login and logout
SetAuthCall(tok) ==
  /\ authEvent.op /= "submit"
  /\ authHeader' = SetAuth(tok)
  /\ authEvent' = AuthEvent("setAuth", tok)
  /\ UNCHANGED <<token, sessionUser, lsToken, lsUser>>
  /\ UNCHANGED <<storeVars, pageVars, logVars, gateVars, latVars, salesVars, routeVars, formVars, envVars, callVars>>

\* sessions in which setAuth is also called on its own
NextHeader ==
  \/ NextAuth
  \/ \E tok \in {<< >>} \cup {<<cred>> : cred \in Credentials} : SetAuthCall(tok)

SpecHeader == InitAuth /\ [][NextHeader]_vars

\* the doctor works on a page with inline editors while doctor pages of other
\* sessions save the same consultations
InitSessions ==
  /\ InitComplete
  /\ view = "inline"

NextSessions ==
  \/ \E l \in LoadSlots : ServePatients(l)
  \/ \E l \in LoadSlots : ServeConsultations(l)
  \/ \E l \in LoadSlots : LoadResolve(l)
  \/ \E l \in LoadSlots : LoadReject(l)
  \/ \E c \in HeldRows, s \in NotesValues : SetNoteDraft(c, s)
  \/ \E c \in HeldRows, st \in Statuses : SetStatusDraft(c, st)
  \/ \E c \in HeldRows : UpdateConsultation(c)
  \/ \E k \in CallSlots, ok \in BOOLEAN : ServeUpdate(k, ok)
  \/ \E k \in CallSlots : UpdateConsultationResume(k)
  \/ ClearToast
  \/ \E c \in ConsIds : \E body \in UpdateBodies(c) : EnvUpdate(c, body)

SpecSessions == InitSessions /\ [][NextSessions]_vars

\* ------------------------------------------------------- latestByPatient
\* Date.parse of a scheduled_at: its instant in milliseconds, NaN (NotADate) for a
\* text that is not a date
DateParse(s) == s[1]

\* the instants consultations are scheduled at, in milliseconds since 1970: before
\* 1970 (the datetime-local inputs have no min), the instant -1 that the loop also
\* uses for an absent scheduled_at, and after 1970
Times == {-5, -1, 5, 9}

LatIds == 1..MaxSeq

LatConsultations ==
  [id : LatIds, patient_id : PatientIds,
   scheduled_at : {<< >>} \cup {<<t>> : t \in Times \cup {NotADate}},
   video_url : {<<"v">>}, status : {"pending"}, doctor_notes : {None}]

\* the consultation lists the view can hold: any order, ids unique
LatInputs ==
  UNION {{s \in [1..k -> LatConsultations] :
            \A i, j \in 1..k : s[i].id = s[j].id => i = j} : k \in 0..MaxSeq}

\* t1 / t2 of the loop: c.scheduled_at ? Date.parse(c.scheduled_at) : -1
TimeOf(c) == IF c.scheduled_at /= << >> THEN DateParse(c.scheduled_at) ELSE -1

\* variant of Later that never lets a consultation without scheduled_at be replaced
\* by one that has it
LaterBothPresent(c, prev) ==
  \/ c.scheduled_at /= << >> /\ prev.scheduled_at /= << >> /\ TimeOf(c) > TimeOf(prev)
  \/ TimeOf(c) = TimeOf(prev) /\ c.id > prev.id

\* a > b and a === b of two numbers: false when either is NaN
JsGreater(a, b) == a /= NotADate /\ b /= NotADate /\ a > b
JsStrictEq(a, b) == a /= NotADate /\ b /= NotADate /\ a = b

\* t1 > t2 || (t1 === t2 && c.id > prev.id)
Later(c, prev) ==
  \/ JsGreater(TimeOf(c), TimeOf(prev))
  \/ JsStrictEq(TimeOf(c), TimeOf(prev)) /\ c.id > prev.id

\* one iteration of the loop (by scheduled_at then id) on the map built so far
LatestStep(map, c) ==
  LET prev == map[c.patient_id]
  IN IF prev = << >> THEN [map EXCEPT ![c.patient_id] = <<c>>]
     ELSE IF Later(c, prev[1]) THEN [map EXCEPT ![c.patient_id] = <<c>>]
     ELSE map

\* one iteration of the loop (by id) on the map built so far
LatestStepId(map, c) ==
  LET prev == map[c.patient_id]
  IN IF prev = << >> \/ c.id > prev[1].id THEN [map EXCEPT ![c.patient_id] = <<c>>]
     ELSE map

RECURSIVE LatestFrom(_, _, _)
LatestFrom(map, cs, i) ==
  IF i > Len(cs) THEN map ELSE LatestFrom(LatestStep(map, cs[i]), cs, i + 1)

RECURSIVE LatestIdFrom(_, _, _)
LatestIdFrom(map, cs, i) ==
  IF i > Len(cs) THEN map ELSE LatestIdFrom(LatestStepId(map, cs[i]), cs, i + 1)

\* latestByPatient (by scheduled_at then id) of a whole list
LatestByPatient(cs) == LatestFrom([p \in PatientIds |-> << >>], cs, 1)

\* latestByPatient (by id) of a whole list
LatestByPatientId(cs) == LatestIdFrom([p \in PatientIds |-> << >>], cs, 1)

InitLatest ==
  /\ srvPatients = [p \in PatientIds |-> SeedPatient(p)]
  /\ srvConsultations = [c \in ConsIds |-> SeedConsultation(c)]
  /\ serverFilters = TRUE
  /\ Mounted
  /\ view = "panel"
  /\ GateIdle
  /\ SignedOut
  /\ RouteIdle
  /\ FormIdle
  /\ EnvIdle
  /\ CallsIdle
  /\ SalesIdle
  /\ latIn \in LatInputs
  /\ latPos = 1
  /\ latMap = [p \in PatientIds |-> << >>]
  /\ latMapId = [p \in PatientIds |-> << >>]
  /\ latStep = << >>

\* the body of "for (const c of consultations)" run once, in both versions of the page
LatestIterate ==
  /\ latPos <= Len(latIn)
  /\ LET c == latIn[latPos]
     IN /\ latMap' = LatestStep(latMap, c)
        /\ latMapId' = LatestStepId(latMapId, c)
        /\ latStep' = <<[c |-> c, prev |-> latMap[c.patient_id],
                        prevId |-> latMapId[c.patient_id]]>>
  /\ latPos' = latPos + 1
  /\ UNCHANGED <<storeVars, pageVars, logVars, gateVars, authVars, salesVars, routeVars, latIn, formVars, envVars, callVars>>

NextLatest == LatestIterate

SpecLatest == InitLatest /\ [][NextLatest]_vars

\* --------------------------------------------------------- sales page forms
\* the versions of the sales page: Sales.tsx, the two of part_001, Login.tsx line 49
SalesPages == {"Sales.tsx", "part_001 first", "part_001 second", "Login.tsx"}

\* values of a request body
JsString(s) == [kind |-> "string", val |-> s]
JsNumber(s) == [kind |-> "number", val |-> s]
JsUndefined == [kind |-> "undefined", val |-> <<>>]
JsNull == [kind |-> "null", val |-> <<>>]

\* a value of a datetime-local input: YYYY-MM-DDTHH:MM
LocalText ==
  <<"2", "0", "2", "4", "-", "0", "1", "-", "0", "2", "T", "1", "0", ":", "0", "0">>

\* new Date(s).toISOString() of a datetime-local text in a zone: the text is read as
\* local time and written as UTC with seconds and milliseconds (the days of the
\* month that stay in the month when shifted)
ToISOStringIn(s, zone) ==
  LET day == NumberOf(SubSeq(s, 9, 10))
      local == 1440 * day + 60 * NumberOf(SubSeq(s, 12, 13)) + NumberOf(SubSeq(s, 15, 16))
      utc == local - OffsetMinutes(zone)
  IN SubSeq(s, 1, 8) \o Pad2(utc \div 1440) \o <<"T">> \o Pad2((utc \div 60) % 24)
       \o <<":">> \o Pad2(utc % 60) \o <<":", "0", "0", ".", "0", "0", "0", "Z">>

ToISOString(s) == ToISOStringIn(s, browser.zone)

\* what the user can type into the fields or pick from the selectors
FieldValues(k) ==
  CASE k = "name" -> {<<>>, <<"U+00A0">>, <<"a">>, <<" ", "a">>}
    [] k = "age" -> {<<>>, <<"7">>}
    [] k = "contact" -> {<<>>, <<"9">>}
    [] k = "notes" -> {<<>>, <<"n">>}

PatientOptions == {<<>>} \cup {<<ToString(p.id)>> : p \in patients}
DoctorOptions == {<<>>} \cup {<<doctors[i].email>> : i \in 1..Len(doctors)}
TimeOptions == {<<>>, LocalText}

\* the sales page is reached through Guard: a sales user is signed in
SalesCredential == Jwt(SalesEmail, "sales")

SalesSignedIn ==
  /\ token = <<SalesCredential>>
  /\ sessionUser = <<UserOf(SalesCredential)>>
  /\ lsToken = <<SalesCredential>>
  /\ lsUser = <<UserOf(SalesCredential)>>
  /\ authHeader = SetAuth(<<SalesCredential>>)
  /\ authEvent = AuthEvent("login-ok", <<SalesCredential>>)

\* onChange of a field of the new-patient form
SetForm(k, s) ==
  /\ view = "sales"
  /\ form[k] /= s
  /\ form' = [form EXCEPT ![k] = s]
  /\ UNCHANGED <<storeVars, pageVars, logVars, gateVars, latVars, authVars, salesVars,
                 routeVars, salesPage, assign, schedule, salesToast, request, envVars, callVars>>

\* onChange of a selector of the assign form
SetAssign(k, x) ==
  /\ view = "sales"
  /\ assign[k] /= x
  /\ assign' = [assign EXCEPT ![k] = x]
  /\ UNCHANGED <<storeVars, pageVars, logVars, gateVars, latVars, authVars, salesVars,
                 routeVars, salesPage, form, schedule, salesToast, request, envVars, callVars>>

\* onChange of an input of the schedule form
SetSchedule(k, x) ==
  /\ view = "sales"
  /\ schedule[k] /= x
  /\ schedule' = [schedule EXCEPT ![k] = x]
  /\ UNCHANGED <<storeVars, pageVars, logVars, gateVars, latVars, authVars, salesVars,
                 routeVars, salesPage, form, assign, salesToast, request, envVars, callVars>>

\* loadAll / loadData called at the end of a handler; the second version of part_001
\* returns at once without a token
CallsLoad == salesPage /= "part_001 second" \/ TokenTruthy(token)

StartSalesLoad(origin) ==
  IF CallsLoad
  THEN loads' = [loads EXCEPT ![NextSlot] = SalesSentLoad(origin)]
  ELSE UNCHANGED loads

\* the entry of the log for a click of a form button
FormRequest(op, outcome) == [op |-> op, outcome |-> outcome]

\* a form button whose handler sends a request: the POST goes out with the body made
\* from the form as it is at the click
SendForm(op, body) ==
  /\ CanClick
  /\ request' = FormRequest(op, "sent")
  /\ calls' = [calls EXCEPT ![NextCall] = SentCall(op, <<>>, body, <<>>)]

\* react-toastify / showToast; Sales.tsx shows nothing
Shown(msg) == IF salesPage = "Sales.tsx" THEN salesToast ELSE msg

\* the condition createPatient returns on
CreateRefused ==
  /\ salesPage \in {"Sales.tsx", "part_001 second"}
  /\ Trim(form.name) = <<>>

CreateBody ==
  IF salesPage = "Sales.tsx"
  THEN [name |-> JsString(Trim(form.name)),
        age |-> IF form.age /= <<>> THEN JsNumber(form.age) ELSE JsUndefined,
        contact |-> IF form.contact /= <<>> THEN JsString(form.contact) ELSE JsUndefined,
        notes |-> IF form.notes /= <<>> THEN JsString(form.notes) ELSE JsUndefined]
  ELSE [name |-> JsString(form.name), age |-> JsString(form.age),
        contact |-> JsString(form.contact), notes |-> JsString(form.notes)]

\* the Create button, up to the await
CreatePatient ==
  /\ view = "sales"
  /\ IF CreateRefused
     THEN /\ request' = FormRequest("create", "refused")
          /\ salesToast' = Shown("Enter a patient name")
          /\ UNCHANGED calls
     ELSE /\ SendForm("create", CreateBody)
          /\ UNCHANGED salesToast
  /\ UNCHANGED <<storeVars, pageVars, logVars, gateVars, latVars, authVars, salesVars,
                 routeVars, salesPage, form, assign, schedule, envVars>>

\* createPatient after the await
CreatePatientResume(k) ==
  /\ calls[k].phase = "answered"
  /\ calls[k].op = "create"
  /\ calls' = [calls EXCEPT ![k] = IdleCall]
  /\ IF calls[k].ok
     THEN /\ salesToast' = Shown("Patient created!")
          /\ form' = EmptyForm
          /\ StartSalesLoad(<<"create">>)
     ELSE /\ salesToast' = Shown("Failed to create patient")
          /\ UNCHANGED <<form, loads>>
  /\ UNCHANGED <<storeVars, view, patients, consultations, openPanelId, notesInput,
                 noteDraft, statusDraft, loading, toast, logVars, gateVars, latVars,
                 authVars, salesVars, routeVars, salesPage, assign, schedule, request,
                 envVars>>

AssignRefused == assign.patient_id = <<>> \/ assign.doctor_email = <<>>

AssignBody ==
  [patient_id |-> IF salesPage = "Sales.tsx" THEN JsNumber(assign.patient_id)
                  ELSE JsString(assign.patient_id),
   doctor_email |-> JsString(assign.doctor_email)]

\* POST /patients/assign as the store applies it
StoreAssign(body) ==
  LET p == CHOOSE q \in PatientIds : <<ToString(q)>> = body.patient_id.val
  IN srvPatients' = [srvPatients EXCEPT ![p].assigned_doctor_email =
                                          body.doctor_email.val[1]]

\* the POST of a form as the store handles it; a record the store creates gets an id
\* outside the modelled ones
ServeForm(k, ok) ==
  /\ calls[k].phase = "sent"
  /\ calls[k].op \in {"create", "assign", "schedule"}
  /\ IF ok /\ calls[k].op = "assign"
     THEN StoreAssign(calls[k].body[1])
     ELSE UNCHANGED srvPatients
  /\ request' = FormRequest(calls[k].op, IF ok THEN "applied" ELSE "failed")
  /\ calls' = [calls EXCEPT ![k].phase = "answered", ![k].ok = ok]
  /\ UNCHANGED <<srvConsultations, serverFilters, pageVars, logVars, gateVars, latVars,
                 authVars, salesVars, routeVars, salesPage, form, assign, schedule,
                 salesToast, envVars>>

\* the Assign button, up to the await
AssignDoctor ==
  /\ view = "sales"
  /\ IF AssignRefused
     THEN /\ request' = FormRequest("assign", "refused")
          /\ salesToast' = Shown(IF salesPage = "part_001 second"
                                 THEN "Select patient & doctor" ELSE "Select both fields")
          /\ UNCHANGED calls
     ELSE /\ SendForm("assign", AssignBody)
          /\ UNCHANGED salesToast
  /\ UNCHANGED <<storeVars, pageVars, logVars, gateVars, latVars, authVars, salesVars,
                 routeVars, salesPage, form, assign, schedule, envVars>>

\* assignDoctor after the await; the version of Login.tsx keeps the selection
AssignDoctorResume(k) ==
  /\ calls[k].phase = "answered"
  /\ calls[k].op = "assign"
  /\ calls' = [calls EXCEPT ![k] = IdleCall]
  /\ IF calls[k].ok
     THEN /\ salesToast' = Shown("Doctor assigned!")
          /\ assign' = IF salesPage = "Login.tsx" THEN assign ELSE EmptyAssign
          /\ StartSalesLoad(<<"assign">>)
     ELSE /\ salesToast' = Shown("Failed to assign doctor")
          /\ UNCHANGED <<assign, loads>>
  /\ UNCHANGED <<storeVars, view, patients, consultations, openPanelId, notesInput,
                 noteDraft, statusDraft, loading, toast, logVars, gateVars, latVars,
                 authVars, salesVars, routeVars, salesPage, form, schedule, request,
                 envVars>>

\* Sales.tsx asks for a patient; the other versions for a patient and a time
ScheduleRefused ==
  \/ schedule.patient_id = <<>>
  \/ salesPage /= "Sales.tsx" /\ schedule.scheduled_at = <<>>

ScheduleBody ==
  IF salesPage = "Sales.tsx"
  THEN [patient_id |-> JsNumber(schedule.patient_id),
        scheduled_at |-> IF schedule.scheduled_at /= <<>>
                         THEN JsString(ToISOString(schedule.scheduled_at)) ELSE JsNull]
  ELSE [patient_id |-> JsString(schedule.patient_id),
        scheduled_at |-> JsString(schedule.scheduled_at)]

\* the Schedule button, up to the await
ScheduleConsult ==
  /\ view = "sales"
  /\ IF ScheduleRefused
     THEN /\ request' = FormRequest("schedule", "refused")
          /\ salesToast' = Shown(IF salesPage = "part_001 second"
                                 THEN "Pick patient & date/time"
                                 ELSE "Select patient and date/time")
          /\ UNCHANGED calls
     ELSE /\ SendForm("schedule", ScheduleBody)
          /\ UNCHANGED salesToast
  /\ UNCHANGED <<storeVars, pageVars, logVars, gateVars, latVars, authVars, salesVars,
                 routeVars, salesPage, form, assign, schedule, envVars>>

\* scheduleConsult after the await; the version of Login.tsx keeps the selection
ScheduleConsultResume(k) ==
  /\ calls[k].phase = "answered"
  /\ calls[k].op = "schedule"
  /\ calls' = [calls EXCEPT ![k] = IdleCall]
  /\ IF calls[k].ok
     THEN /\ salesToast' = Shown("Appointment scheduled!")
          /\ schedule' = IF salesPage = "Login.tsx" THEN schedule ELSE EmptySchedule
          /\ StartSalesLoad(<<"schedule">>)
     ELSE /\ salesToast' = Shown("Failed to schedule")
          /\ UNCHANGED <<schedule, loads>>
  /\ UNCHANGED <<storeVars, view, patients, consultations, openPanelId, notesInput,
                 noteDraft, statusDraft, loading, toast, logVars, gateVars, latVars,
                 authVars, salesVars, routeVars, salesPage, form, assign, request,
                 envVars>>

\* the timer showToast of the second version of part_001 arms hides the toast; the
\* other versions hand their messages to the toast library or show none
ClearSalesToast ==
  /\ view = "sales"
  /\ salesPage = "part_001 second"
  /\ salesToast /= ""
  /\ salesToast' = ""
  /\ UNCHANGED <<storeVars, pageVars, logVars, gateVars, latVars, authVars, salesVars,
                 routeVars, salesPage, form, assign, schedule, request, envVars, callVars>>

\* latestByPatient of the mounted version: by scheduled_at then id in the first
\* version of part_001, by id in the second
LatestHeld(p) ==
  IF salesPage = "part_001 second"
  THEN LatestByPatientId(consultations)[p.id]
  ELSE LatestByPatient(consultations)[p.id]

\* the Send / WhatsApp button of a patient's row in the versions of part_001, up to
\* the await; the button is disabled for a patient without a consultation
SendWhatsApp(p) ==
  /\ view = "sales"
  /\ salesPage \in {"part_001 first", "part_001 second"}
  /\ p \in patients
  /\ LatestHeld(p) /= << >>
  /\ CanClick
  /\ lastEvent' = Event("notify", LatestHeld(p)[1], <<>>, p.contact, "requested")
  /\ calls' = [calls EXCEPT ![NextCall] =
                              SentCall("whatsapp", LatestHeld(p),
                                       [consultation_id |-> LatestHeld(p)[1].id],
                                       <<lastEvent'>>)]
  /\ UNCHANGED <<storeVars, pageVars, gateVars, latVars, authVars, salesVars, routeVars,
                 formVars, envVars>>

\* how POST /consultations/whatsapp-link ends: answered with a wa_link, answered
\* with none (absent or empty), or failed
LinkAnswers == {"link", "nolink", "failed"}

\* sendWhatsApp / openWhatsApp after the await: the first version calls window.open
\* with whatever wa_link is, the second one only if (url); the catch branch shows a
\* message
SendWhatsAppResume(k, answer) ==
  /\ view = "sales"
  /\ calls[k].phase = "sent"
  /\ calls[k].op = "whatsapp"
  /\ calls' = [calls EXCEPT ![k] = IdleCall]
  /\ lastEvent' =
       IF answer = "failed" THEN [calls[k].event[1] EXCEPT !.outcome = "error"]
       ELSE IF answer = "link" \/ salesPage = "part_001 first"
       THEN [calls[k].event[1] EXCEPT !.outcome = "opened"]
       ELSE lastEvent
  /\ salesToast' = IF answer /= "failed" THEN salesToast
                   ELSE IF salesPage = "part_001 second"
                   THEN "Failed to build WhatsApp link"
                   ELSE "Failed to create WhatsApp link"
  /\ UNCHANGED <<storeVars, pageVars, gateVars, latVars, authVars, salesVars, routeVars,
                 salesPage, form, assign, schedule, request, envVars>>

\* loadData of the other versions: Login.tsx awaits the doctors, then the patients,
\* and holds no consultations; part_001 awaits the three GETs together
LoadDataServe(l, k) ==
  /\ view = "sales"
  /\ salesPage /= "Sales.tsx"
  /\ loads[l].phase = "sent"
  /\ \/ k = "doctors" /\ loads[l].dData = <<>>
        /\ loads' = [loads EXCEPT ![l].dData = <<ListDoctors>>]
     \/ k = "patients" /\ loads[l].pData = <<>>
        /\ (salesPage = "Login.tsx" => loads[l].dData /= <<>>)
        /\ loads' = [loads EXCEPT ![l].pData = <<ListAllPatients>>]
     \/ k = "consultations" /\ loads[l].cData = <<>>
        /\ salesPage /= "Login.tsx"
        /\ loads' = [loads EXCEPT ![l].cData = <<ListAllConsultations>>]
  /\ UNCHANGED <<storeVars, view, patients, consultations, openPanelId, notesInput,
                 noteDraft, statusDraft, loading, toast, logVars, gateVars, latVars,
                 authVars, salesVars, routeVars, formVars, envVars, callVars>>

LoadDataComplete(l) ==
  /\ loads[l].pData /= <<>>
  /\ loads[l].dData /= <<>>
  /\ salesPage /= "Login.tsx" => loads[l].cData /= <<>>

LoadDataResolve(l) ==
  /\ view = "sales"
  /\ salesPage /= "Sales.tsx"
  /\ loads[l].phase = "sent"
  /\ LoadDataComplete(l)
  /\ doctors' = loads[l].dData[1]
  /\ patients' = loads[l].pData[1]
  /\ consultations' = IF salesPage = "Login.tsx" THEN consultations ELSE loads[l].cData[1]
  /\ loads' = [loads EXCEPT ![l] = SalesIdleLoad]
  /\ UNCHANGED <<storeVars, view, openPanelId, notesInput, noteDraft, statusDraft,
                 loading, toast, logVars, gateVars, latVars, authVars, routeVars, formVars, envVars, callVars>>

LoadDataReject(l) ==
  /\ view = "sales"
  /\ salesPage /= "Sales.tsx"
  /\ loads[l].phase = "sent"
  /\ ~LoadDataComplete(l)
  /\ salesToast' = IF salesPage = "part_001 second"
                   THEN "Failed to load data. Check login/token & backend."
                   ELSE "Failed to load data. Check your login/token and backend."
  /\ loads' = [loads EXCEPT ![l] = SalesIdleLoad]
  /\ UNCHANGED <<storeVars, view, patients, consultations, openPanelId, notesInput,
                 noteDraft, statusDraft, loading, toast, logVars, gateVars, latVars,
                 authVars, salesVars, routeVars, salesPage, form, assign, schedule,
                 request, envVars, callVars>>

\* a version of the sales page once the load of its mount has been received: it
\* holds what the store has, and no request is under way
SalesLoaded ==
  /\ view = "sales"
  /\ patients = ListAllPatients
  /\ consultations = IF salesPage = "Login.tsx" THEN << >> ELSE ListAllConsultations
  /\ doctors = ListDoctors
  /\ openPanelId = NoId
  /\ notesInput = <<>>
  /\ noteDraft = [c \in ConsIds |-> None]
  /\ statusDraft = [c \in ConsIds |-> NoStatus]
  /\ loading = FALSE
  /\ toast = ""
  /\ loads = [l \in 1..(MaxLoads + MaxCalls) |-> SalesIdleLoad]
  /\ lastEvent = IF salesPage = "Sales.tsx" THEN LoadEvent(1, "resolved") ELSE NoEvent

\* a version of the sales page, loaded, for a signed-in sales user
InitForms ==
  /\ srvPatients = [p \in PatientIds |-> SeedPatient(p)]
  /\ srvConsultations = [c \in ConsIds |-> SeedConsultation(c)]
  /\ serverFilters = TRUE
  /\ salesPage \in SalesPages
  /\ SalesLoaded
  /\ GateIdle
  /\ LatIdle
  /\ SalesSignedIn
  /\ RouteIdle
  /\ form = EmptyForm
  /\ assign = EmptyAssign
  /\ schedule = EmptySchedule
  /\ salesToast = ""
  /\ request = NoRequest
  /\ EnvIdle
  /\ CallsIdle

\* what the sales user types into and picks here: the name of the new-patient form,
\* the first patient of the selectors, and the first doctor of the list
TypedFields == {"name"}
PickedPatients == {x \in PatientOptions : x \in {<<>>, <<"1">>}}
PickedDoctors == {x \in DoctorOptions : x \in {<<>>, <<DoctorEmail>>}}

\* the sales user fills the forms and clicks their buttons
NextForms ==
  \/ \E l \in LoadSlots : salesPage = "Sales.tsx" /\ SalesPollLoad(l)
  \/ \E l \in LoadSlots, k \in {"patients", "consultations", "doctors"} :
       salesPage = "Sales.tsx" /\ SalesServe(l, k)
  \/ \E l \in LoadSlots : salesPage = "Sales.tsx" /\ SalesLoadResolve(l)
  \/ \E l \in LoadSlots : salesPage = "Sales.tsx" /\ SalesLoadReject(l)
  \/ \E l \in LoadSlots, k \in {"patients", "consultations", "doctors"} : LoadDataServe(l, k)
  \/ \E l \in LoadSlots : LoadDataResolve(l)
  \/ \E l \in LoadSlots : LoadDataReject(l)
  \/ \E k \in TypedFields : \E s \in FieldValues(k) : SetForm(k, s)
  \/ \E x \in PickedPatients : SetAssign("patient_id", x)
  \/ \E x \in PickedDoctors : SetAssign("doctor_email", x)
  \/ \E x \in PickedPatients : SetSchedule("patient_id", x)
  \/ \E x \in TimeOptions : SetSchedule("scheduled_at", x)
  \/ CreatePatient
  \/ AssignDoctor
  \/ ScheduleConsult
  \/ \E k \in CallSlots, ok \in BOOLEAN : ServeForm(k, ok)
  \/ \E k \in CallSlots : CreatePatientResume(k)
  \/ \E k \in CallSlots : AssignDoctorResume(k)
  \/ \E k \in CallSlots : ScheduleConsultResume(k)
  \/ ClearSalesToast

SpecForms == InitForms /\ [][NextForms]_vars

\* ------------------------------------------------------ sales page rows
\* !!(c.doctor_notes && c.doctor_notes.trim().length) of a row of Sales.tsx
HasNotes(c) == Truthy(c.doctor_notes) /\ Len(Trim(c.doctor_notes)) /= 0

\* the Print button of a row of Sales.tsx, disabled without notes: printSummary has
\* no condition on the status and returns when the window is not opened
SalesPrintSummary(c, popup) ==
  /\ view = "sales"
  /\ salesPage = "Sales.tsx"
  /\ c \in HeldRows
  /\ HasNotes(c)
  /\ lastEvent' = Event("print", c, <<>>, None, IF popup THEN "written" ELSE "blocked")
  /\ UNCHANGED <<storeVars, pageVars, gateVars, latVars, authVars, salesVars, routeVars,
                 formVars, envVars, callVars>>

\* the condition the Print button of a patient's row is enabled on in the versions
\* of part_001
PrintEnabled(p) ==
  /\ LatestHeld(p) /= << >>
  /\ IF salesPage = "part_001 second"
     THEN CanPrint(LatestHeld(p)[1])
     ELSE CanPrintSales(LatestHeld(p)[1])

\* the Print button of a patient's row in the versions of part_001: the window is
\* written, or a message tells that the popup was blocked
SalesPrintConsultation(p, popup) ==
  /\ view = "sales"
  /\ salesPage \in {"part_001 first", "part_001 second"}
  /\ p \in patients
  /\ PrintEnabled(p)
  /\ lastEvent' = Event("print", LatestHeld(p)[1], <<>>, None,
                        IF popup THEN "written" ELSE "blocked")
  /\ salesToast' = IF popup THEN salesToast
                   ELSE IF salesPage = "part_001 second"
                   THEN "Popup blocked U+2014 allow popups to print."
                   ELSE "Popup blocked U+201AU+00C4U+00EE allow popups to print."
  /\ UNCHANGED <<storeVars, pageVars, gateVars, latVars, authVars, salesVars, routeVars,
                 salesPage, form, assign, schedule, request, envVars, callVars>>

\* a consultation whose doctor saved notes without completing it
NotedConsultation(c) == [SeedConsultation(c) EXCEPT !.doctor_notes = <<"a">>]

\* a sales page is mounted over a store whose consultations are freshly scheduled,
\* noted or completed
InitRows ==
  /\ srvPatients = [p \in PatientIds |-> SeedPatient(p)]
  /\ srvConsultations \in [ConsIds -> UNION {{SeedConsultation(c), NotedConsultation(c),
                                                DoneConsultation(c)} : c \in ConsIds}]
  /\ \A c \in ConsIds : srvConsultations[c].id = c
  /\ serverFilters = TRUE
  /\ SalesMounted
  /\ GateIdle
  /\ LatIdle
  /\ SalesSignedIn
  /\ RouteIdle
  /\ salesPage \in SalesPages
  /\ form = EmptyForm
  /\ assign = EmptyAssign
  /\ schedule = EmptySchedule
  /\ salesToast = ""
  /\ request = NoRequest
  /\ EnvIdle
  /\ CallsIdle

\* the sales user prints and notifies from the rows of the table
NextRows ==
  \/ \E l \in LoadSlots : salesPage = "Sales.tsx" /\ SalesPollLoad(l)
  \/ \E l \in LoadSlots, k \in {"patients", "consultations", "doctors"} :
       salesPage = "Sales.tsx" /\ SalesServe(l, k)
  \/ \E l \in LoadSlots : salesPage = "Sales.tsx" /\ SalesLoadResolve(l)
  \/ \E l \in LoadSlots : salesPage = "Sales.tsx" /\ SalesLoadReject(l)
  \/ \E l \in LoadSlots, k \in {"patients", "consultations", "doctors"} : LoadDataServe(l, k)
  \/ \E l \in LoadSlots : LoadDataResolve(l)
  \/ \E l \in LoadSlots : LoadDataReject(l)
  \/ \E c \in HeldRows, popup \in BOOLEAN : SalesPrintSummary(c, popup)
  \/ \E p \in patients, popup \in BOOLEAN : SalesPrintConsultation(p, popup)
  \/ \E p \in patients : SendWhatsApp(p)
  \/ \E k \in CallSlots, answer \in LinkAnswers : SendWhatsAppResume(k, answer)
  \/ ClearSalesToast

SpecRows == InitRows /\ [][NextRows]_vars

\* ================================================================== claims
\* notes that hold at least one character that is not whitespace
NotesNonBlank(n) == n /= None /\ \E i \in 1..Len(n) : ~IsSpace(n[i])

NotSpace(ch) == ~IsSpace(ch)

\* the addressee as the specification words it: the contact without its whitespace
\* characters, then without one leading "+"
SpecDigits(contact) ==
  LET bare == IF contact = None THEN <<>> ELSE SelectSeq(contact, NotSpace)
  IN IF Len(bare) > 0 /\ bare[1] = "+" THEN SubSeq(bare, 2, Len(bare)) ELSE bare

\* C1: an update request never takes a stored consultation from completed back to
\* pending; the status of a completed consultation stays completed.
C1_CompletedNeverReverts ==
  [][\A c \in ConsIds :
       srvConsultations[c].status = "completed"
         => srvConsultations'[c].status = "completed"]_vars

\* C2: no update request is submitted that sets status completed while the notes,
\* merged with the stored notes and trimmed, are empty.
C2_NoEmptyCompletionSubmitted ==
  lastEvent.op = "update" =>
    LET body == lastEvent.body[1]
        merged == ApplyPatch(lastEvent.cons[1], body).doctor_notes
    IN ~(body.status = "completed" /\ ~NotesNonBlank(merged))

\* C3: no consultation, stored or held by the page, is completed with notes that are
\* empty after trimming.
C3_NoCompletedWithoutNotes ==
  /\ \A c \in ConsIds :
       srvConsultations[c].status = "completed"
         => NotesNonBlank(srvConsultations[c].doctor_notes)
  /\ \A r \in HeldRows : r.status = "completed" => NotesNonBlank(r.doctor_notes)

\* C4: every patient the doctor page holds is assigned to the signed-in doctor, and
\* every consultation it holds belongs to such a patient.
C4_DoctorScope ==
  /\ \A p \in patients : p.assigned_doctor_email = user.email
  /\ \A r \in HeldRows :
       \E p \in patients : p.id = r.patient_id /\ p.assigned_doctor_email = user.email

\* C5: every consultation the page holds has its patient held by the page too.
C5_HeldConsultationHasPatient ==
  \A r \in HeldRows : \E p \in patients : p.id = r.patient_id

\* C6: the print guard is true exactly when the status is completed and the notes
\* hold a non-whitespace character; an absent status counts as pending and absent
\* or whitespace-only notes count as empty.
C6_CanPrintIff ==
  gateOut.op \in {"canPrint", "canPrintSales"} =>
    (gateOut.print <=> (gateC.status = "completed" /\ NotesNonBlank(gateC.doctor_notes)))

\* C6 witness: completed, notes with whitespace around a character, guard true
C6_Witness ==
  /\ gateOut.op = "canPrint"
  /\ gateC.status = "completed"
  /\ gateC.doctor_notes = <<" ", "a", " ">>
  /\ gateOut.print

\* C7: a print action writes a printout only for a consultation that is completed
\* with non-blank notes; for any other consultation it is refused.
C7_PrintOnlyWhenEligible ==
  lastEvent.op = "print" =>
    LET c == lastEvent.cons[1]
        eligible == StatusOrPending(c.status) = "completed" /\ NotesNonBlank(c.doctor_notes)
    IN /\ lastEvent.outcome = "written" => eligible
       /\ ~eligible => lastEvent.outcome = "refused"

\* C8: a notify action sends a link request or opens a window only when the
\* patient's contact is non-empty after normalization; otherwise it is refused.
C8_NotifyOnlyWithContact ==
  lastEvent.op = "notify" =>
    (SpecDigits(lastEvent.contact) = <<>> => lastEvent.outcome = "refused")

\* C9: canNotify is true exactly when the link is built, and both are decided by the
\* patient's contact alone, whatever the consultation's status: an absent or empty
\* contact gives canNotify false and no link.
C9_CanNotifyIffBuilt ==
  gateOut.op = "build" =>
    /\ gateOut.notify <=> gateOut.link /= <<>>
    /\ gateOut.notify <=> SpecDigits(gateP.contact) /= <<>>
    /\ gateP.contact \in {None, <<>>} => ~gateOut.notify /\ gateOut.link = <<>>

\* C9 witness: a pending consultation whose patient has a contact is notifiable
C9_Witness ==
  /\ gateOut.op = "build"
  /\ gateC.status = "pending"
  /\ gateP.contact = <<"+", "9">>
  /\ gateOut.notify
  /\ gateOut.link /= <<>>

\* C10: the link's addressee is the contact with all whitespace removed and then one
\* leading "+" removed (a second "+" is kept); no link is built exactly when that
\* text is empty.
C10_PhoneDigits ==
  gateOut.op = "build" =>
    /\ gateOut.link = <<>> <=> SpecDigits(gateP.contact) = <<>>
    /\ gateOut.link /= <<>> => gateOut.link[1].to = SpecDigits(gateP.contact)

\* C10 witness: whitespace before two "+" signs: one "+" is kept in the addressee
C10_Witness ==
  /\ gateOut.op = "build"
  /\ gateP.contact = <<" ", "+", "+">>
  /\ gateOut.link /= <<>>
  /\ gateOut.link[1].to = <<"+">>


\* ------------------------------------------------- latest consultation claims
LatDone == latPos > Len(latIn)

HasTime(c) == c.scheduled_at /= << >>

\* the timestamps are equal, two absent ones counting as equal
SameTime(a, b) ==
  \/ ~HasTime(a) /\ ~HasTime(b)
  \/ HasTime(a) /\ HasTime(b) /\ DateParse(a.scheduled_at) = DateParse(b.scheduled_at)

BothLater(a, b) ==
  HasTime(a) /\ HasTime(b) /\ DateParse(a.scheduled_at) > DateParse(b.scheduled_at)

\* the iteration just run met a previous candidate and put c in its place
Replaced == latMap[latStep[1].c.patient_id] = <<latStep[1].c>>

\* C11 as stated: an iteration that meets a previous candidate replaces it exactly
\* when both have a scheduled_at and c's is later, or the timestamps are equal and
\* c.id is greater; a c with a scheduled_at never replaces a prev without one
C11_ReplaceOnlyBothPresent ==
  (latStep /= << >> /\ latStep[1].prev /= << >>) =>
    LET c == latStep[1].c
        prev == latStep[1].prev[1]
    IN Replaced <=> (BothLater(c, prev) \/ (SameTime(c, prev) /\ c.id > prev.id))

\* the scheduled_at is present and Date.parse cannot read it
Unparsed(c) == HasTime(c) /\ DateParse(c.scheduled_at) = NotADate

\* the scheduled_at is present and is the instant t
ScheduledAt(c, t) == HasTime(c) /\ ~Unparsed(c) /\ DateParse(c.scheduled_at) = t

\* c counts as scheduled at the instant t: the parsed one, or -1 when the
\* scheduled_at is absent
Counted(c, t) == IF HasTime(c) THEN ScheduledAt(c, t) ELSE t = -1

\* C11 amended: an iteration that meets a previous candidate keeps it when the
\* scheduled_at of either cannot be parsed; otherwise, an absent scheduled_at
\* counting as the instant -1, it replaces the candidate exactly when c's instant
\* is later, or the instants are equal and c.id is greater
C11_ReplaceRule ==
  (latStep /= << >> /\ latStep[1].prev /= << >>) =>
    LET c == latStep[1].c
        prev == latStep[1].prev[1]
    IN Replaced <=>
         /\ ~Unparsed(c)
         /\ ~Unparsed(prev)
         /\ \E tc, tp \in Times \cup {-1} :
              /\ Counted(c, tc)
              /\ Counted(prev, tp)
              /\ tc > tp \/ (tc = tp /\ c.id > prev.id)

\* a consultation with a scheduled_at has replaced a candidate with a greater id
\* and no scheduled_at
C11_Witness ==
  /\ latStep /= << >>
  /\ latStep[1].prev /= << >>
  /\ HasTime(latStep[1].c)
  /\ ~HasTime(latStep[1].prev[1])
  /\ latStep[1].prev[1].id > latStep[1].c.id
  /\ Replaced

Reordered(cs, f) == [i \in 1..Len(cs) |-> cs[f[i]]]

\* C12: once the loop is over, the map it built is the one latestByPatient builds
\* from every reordering of the same consultations, in both versions of the page
C12_OrderIndependent ==
  LatDone =>
    \A f \in Permutations(1..Len(latIn)) :
      /\ LatestByPatient(Reordered(latIn, f)) = latMap
      /\ LatestByPatientId(Reordered(latIn, f)) = latMapId

\* a ranks below b: absent below every real timestamp, then by timestamp, then by id
RanksBelow(a, b) ==
  \/ ~HasTime(a) /\ HasTime(b)
  \/ HasTime(a) /\ HasTime(b) /\ DateParse(a.scheduled_at) < DateParse(b.scheduled_at)
  \/ SameTime(a, b) /\ a.id < b.id

OfPatient(p) == {latIn[i] : i \in {j \in 1..Len(latIn) : latIn[j].patient_id = p}}

\* C13: once the loop is over, every patient with a consultation has one selected,
\* it is one of the patient's consultations and every other one ranks below it
C13_SelectsMaximum ==
  LatDone =>
    \A p \in PatientIds :
      OfPatient(p) /= {} =>
        /\ latMap[p] /= << >>
        /\ latMap[p][1] \in OfPatient(p)
        /\ \A c \in OfPatient(p) : c = latMap[p][1] \/ RanksBelow(c, latMap[p][1])

\* C14: once the loop is over, the selector by scheduled_at then id and the selector
\* by id have selected the same consultation for every patient
C14_SelectorsAgree == LatDone => latMap = latMapId


\* ----------------------------------------------------------- sales load claim
\* loadAll call l ends in the step
LoadEnds(l) == loads[l].phase = "sent" /\ loads'[l].phase = "idle"

\* every request of loadAll call l has been answered
AllArrived(l) ==
  /\ loads[l].pData /= <<>>
  /\ loads[l].cData /= <<>>
  /\ view = "sales" => loads[l].dData /= <<>>

\* C15: when a loadAll of the sales page ends with every request answered, the page
\* holds as patients and as consultations exactly what the store answered that call
\* with, which is a record for every patient and every consultation of the store
C15_SalesHoldsReceived ==
  [][view = "sales" =>
       \A l \in DOMAIN loads :
         (LoadEnds(l) /\ AllArrived(l)) =>
            /\ patients' = loads[l].pData[1]
            /\ consultations' = loads[l].cData[1]
            /\ {p.id : p \in patients'} = DOMAIN srvPatients
            /\ [i \in 1..Len(consultations') |-> consultations'[i].id]
                 = [i \in DOMAIN srvConsultations |-> i]]_vars

\* the sales page holds a reload that differs from the store as it was at mount: a
\* patient of another doctor reassigned and a consultation completed
C15_Witness ==
  /\ view = "sales"
  /\ lastEvent.op = "load" /\ lastEvent.outcome = "resolved"
  /\ patients = ListAllPatients
  /\ consultations = ListAllConsultations
  /\ \A p \in patients : p.assigned_doctor_email = DoctorEmail
  /\ \E i \in 1..Len(consultations) : consultations[i].status = "completed"


\* --------------------------------------------------------------- auth claims
\* C16: no identity whose role is other than sales or doctor is ever held by the
\* provider or persisted in localStorage
C16_NoUnknownRole ==
  /\ sessionUser /= << >> => sessionUser[1].role \in Roles
  /\ lsUser /= << >> => lsUser[1].role \in Roles

\* the credential has three dot-separated parts and a payload that decodes
WellFormed(cred) == Len(cred.parts) = 3 /\ cred.parts[2].kind = "claims"

\* C17: a login answered with a credential that lacks three parts or whose payload
\* cannot be decoded fails and leaves token, user, localStorage and the
\* Authorization header as they were
C17_MalformedLeavesSession ==
  [][(authEvent'.op \in {"login-ok", "login-threw"} /\ ~WellFormed(authEvent'.cred[1]))
       => /\ authEvent'.op = "login-threw"
          /\ UNCHANGED <<token, sessionUser, lsToken, lsUser, authHeader>>]_vars

SessionCleared ==
  /\ token = << >>
  /\ sessionUser = << >>
  /\ lsToken = << >>
  /\ lsUser = << >>
  /\ authHeader = << >>

\* C18 as stated: a logout leaves token and user null, both localStorage entries
\* removed and no Authorization header; a user that is set changes only by a logout
C18_LogoutClearsUserFixed ==
  [][/\ authEvent'.op = "logout" => SessionCleared'
     /\ (sessionUser /= << >> /\ sessionUser' /= sessionUser)
          => authEvent'.op = "logout"]_vars

\* C18 amended: a logout leaves token and user null, both localStorage entries
\* removed and no Authorization header; a user that is set changes only by a
\* logout or by another login that succeeds
C18_LogoutClearsUserStable ==
  [][/\ authEvent'.op = "logout" => SessionCleared'
     /\ (sessionUser /= << >> /\ sessionUser' /= sessionUser)
          => authEvent'.op \in {"logout", "login-ok"}]_vars

\* a signed-in session has just been logged out
C18_Witness ==
  /\ authEvent.op = "logout"
  /\ authEvent.cred /= << >>
  /\ Decodes(authEvent.cred[1])
  /\ SessionCleared


\* ------------------------------------------------------- completion claims
\* the last update request of the page was accepted, took consultation id from
\* pending without notes to completed with the notes, and loadAll call l is the
\* reload its handler made
CompletionOf(l, id, notes) ==
  /\ loads[l].origin = <<id>>
  /\ lastEvent.op = "update"
  /\ lastEvent.outcome = "applied"
  /\ StatusOrPending(lastEvent.cons[1].status) = "pending"
  /\ OrEmpty(lastEvent.cons[1].doctor_notes) = <<>>
  /\ lastEvent.body[1] = [consultation_id |-> id, notes |-> notes, status |-> "completed"]

\* the page holds consultation id as completed, with the notes, and printable
HeldCompleted(rows, id, notes) ==
  \E i \in 1..Len(rows) :
    /\ rows[i].id = id
    /\ rows[i].status = "completed"
    /\ rows[i].doctor_notes = notes
    /\ CanPrint(rows[i])
    /\ CanPrintSales(rows[i])

\* C19: when the reload that follows an accepted update of a pending consultation
\* without notes to completed with non-empty notes ends with every request
\* answered, no other update request having been answered since, the page holds the
\* consultation as completed with those notes and canPrint is true
C19_CompletedThenPrintable ==
  [][\A l \in LoadSlots : \A id \in ConsIds : \A notes \in NotesValues \ {<<>>} :
       (LoadEnds(l) /\ AllArrived(l) /\ CompletionOf(l, id, notes))
       => HeldCompleted(consultations', id, notes)]_vars


\* the request of call k carries no other status than the one its row showed at the
\* click: Save Notes of the panel page sends none, Save of the inline page sends the
\* status draft
KeepsShownStatus(k) ==
  \/ calls[k].op = "patch" /\ calls[k].body[1].status = NoStatus
  \/ /\ calls[k].op = "update"
     /\ calls[k].body[1].status = StatusOrPending(calls[k].cons[1].status)

\* C20: an accepted save of notes in which the doctor chose no other status than the
\* one the row shows (Save Notes of the panel page, Save of the inline page with the
\* status selector untouched) leaves the stored status as it is when it is applied
C20_NotesOnlyKeepsStatus ==
  [][\A k \in CallSlots :
       (ServeUpdate(k, TRUE) /\ KeepsShownStatus(k))
       => srvConsultations'[calls[k].body[1].consultation_id].status
            = srvConsultations[calls[k].body[1].consultation_id].status]_vars


\* ------------------------------------------------------ link message claim
HexValue(ch) == (CHOOSE i \in 1..16 : HexDigits[i] = ch) - 1

\* String.fromCodePoint for the characters of the model
FromCodePoint(cp) ==
  IF cp \in 32..126 THEN Ascii[cp - 31] ELSE (CHOOSE e \in CodePoints : e[2] = cp)[1]

Kept(n) == n >= 0

\* the bytes an encoded text stands for: an escape gives its byte, at the place of
\* its "%"; any other character gives its own code
EncodedBytes(t) ==
  SelectSeq([i \in 1..Len(t) |->
               IF t[i] = "%" THEN 16 * HexValue(t[i + 1]) + HexValue(t[i + 2])
               ELSE IF (i > 1 /\ t[i - 1] = "%") \/ (i > 2 /\ t[i - 2] = "%") THEN -1
               ELSE CodePoint(t[i])], Kept)

\* the code points written by UTF-8 bytes, each at the place of its first byte
Utf8Decode(b) ==
  SelectSeq([i \in 1..Len(b) |->
               IF b[i] < 128 THEN b[i]
               ELSE IF b[i] < 192 THEN -1
               ELSE IF b[i] < 224 THEN 64 * (b[i] - 192) + (b[i + 1] - 128)
               ELSE 4096 * (b[i] - 224) + 64 * (b[i + 1] - 128) + (b[i + 2] - 128)],
            Kept)

\* decodeURIComponent: the escapes are read as the UTF-8 bytes of characters
DecodeURIComponent(t) ==
  LET cps == Utf8Decode(EncodedBytes(t))
  IN [i \in 1..Len(cps) |-> FromCodePoint(cps[i])]

StartsWith(text, part) ==
  Len(part) <= Len(text) /\ SubSeq(text, 1, Len(part)) = part

EndsWith(text, part) ==
  Len(part) <= Len(text) /\ SubSeq(text, Len(text) - Len(part) + 1, Len(text)) = part

Contains(text, part) ==
  \E i \in 1..(Len(text) + 1) :
    i + Len(part) - 1 <= Len(text) /\ SubSeq(text, i, i + Len(part) - 1) = part

\* C21: the percent-decoded message of a built link begins with "Hello <name>,"
\* (the empty text for an absent name), contains the video URL, ends with
\* " at <local rendering of scheduled_at>" when scheduled_at is present, and ends
\* with the video URL, with no " at " clause after it, when it is absent
C21_MessageClauses ==
  (gateOut.op = "build" /\ gateOut.link /= <<>>) =>
    LET msg == DecodeURIComponent(gateOut.link[1].text)
        name == IF gateP.name = None THEN <<>> ELSE gateP.name
    IN /\ StartsWith(msg, Hello \o name \o <<",">>)
       /\ Contains(msg, gateC.video_url)
       /\ gateC.scheduled_at /= <<>> =>
            EndsWith(msg, gateC.video_url \o At \o LocaleString(gateC.scheduled_at))
       /\ gateC.scheduled_at = <<>> =>
            EndsWith(msg, <<":", " ">> \o gateC.video_url)

\* a link was built for a patient without a name and a consultation without
\* scheduled_at: the message is the greeting and the URL
C21_Witness ==
  /\ gateOut.op = "build"
  /\ gateOut.link /= <<>>
  /\ gateP.name = None
  /\ gateC.scheduled_at = <<>>
  /\ StartsWith(DecodeURIComponent(gateOut.link[1].text), Hello \o <<",">>)
  /\ EndsWith(DecodeURIComponent(gateOut.link[1].text), gateC.video_url)


\* ------------------------------------------------------------ polling claim
\* the page holds the consultations as the store lists them now: a snapshot fetched
\* after every update applied so far
HoldsCurrent == consultations = ListConsultations

\* C22: once the page holds a snapshot fetched after the updates applied so far, a
\* step that leaves the store as it is does not replace it by one fetched before
\* one of them
C22_NoStaleSnapshot ==
  [][(HoldsCurrent /\ UNCHANGED storeVars) => HoldsCurrent']_vars


\* ------------------------------------------------------------ router claims
\* C23: a chain of redirects ends. The target of a Navigate depends on the location
\* and the user only, and the user does not change inside a chain, so a chain that
\* ends passes no location twice: it makes fewer redirects than there are locations
C23_RedirectsEnd == hops < Cardinality(Routes)

\* the location the redirects lead to from r, followed for at most n redirects
RECURSIVE FinalRoute(_, _, _)
FinalRoute(r, u, n) ==
  IF RedirectOf(r, u) = << >> \/ n = 0 THEN r
  ELSE FinalRoute(RedirectOf(r, u)[1], u, n - 1)

\* C24: the Sales page is on screen only for a user of role sales, the Doctor page
\* only for a user of role doctor; with no user neither is on screen and the
\* redirects from the current location lead to /login
C24_PagesGuarded ==
  /\ Page(route, sessionUser) = "Sales" =>
       sessionUser /= << >> /\ sessionUser[1].role = "sales"
  /\ Page(route, sessionUser) = "Doctor" =>
       sessionUser /= << >> /\ sessionUser[1].role = "doctor"
  /\ sessionUser = << >> =>
       /\ Page(route, sessionUser) \notin {"Sales", "Doctor"}
       /\ FinalRoute(route, sessionUser, Cardinality(Routes)) = "/login"

\* a doctor who entered /sales was redirected and has the Doctor page on screen
C24_Witness ==
  /\ Page(route, sessionUser) = "Doctor"
  /\ sessionUser /= << >>
  /\ sessionUser[1].role = "doctor"
  /\ authEvent.op = "reload"
  /\ hops = 1

\* C25: token and user are null together, and the localStorage entries are present
\* exactly when they are set
C25_SessionConsistent ==
  /\ (token = << >>) <=> (sessionUser = << >>)
  /\ (lsToken = << >>) <=> (token = << >>)
  /\ (lsUser = << >>) <=> (sessionUser = << >>)


\* ------------------------------------------------------------ header claim
\* the token the step of event ev gave to setAuth; stored is localStorage's token
GivenBy(ev, stored) ==
  IF ev.op = "logout" THEN << >>
  ELSE IF ev.op = "reload" THEN stored
  ELSE ev.cred

\* the step called setAuth: it is not a submit, a rejected login or a redirect
CallsSetAuth == authEvent' /= authEvent /\ authEvent'.op \notin {"submit", "login-rejected"}

\* the step calls setAuth with the token that the call before it was given
SameTokenAgain ==
  /\ CallsSetAuth
  /\ authEvent.op \notin {"none", "submit", "login-rejected"}
  /\ GivenBy(authEvent', lsToken) = GivenBy(authEvent, lsToken)

\* the header holds the text of the given token behind n times "Bearer "
HeaderHolds(hdr, given, n) ==
  /\ hdr /= << >>
  /\ given /= << >>
  /\ hdr[1].parts = given[1].parts
  /\ hdr[1].prefixes = n

\* C30 as stated: a step that calls setAuth leaves the header present exactly when
\* the token given is not null, with exactly one "Bearer " before the token's text,
\* and a call with the same token as the call before leaves the header as it is; any
\* other step leaves the header alone
C30_HeaderIffNonNull ==
  [][IF CallsSetAuth
     THEN LET given == GivenBy(authEvent', lsToken)
          IN /\ authHeader' /= << >> <=> given /= << >>
             /\ authHeader' /= << >> => HeaderHolds(authHeader', given, 1)
             /\ SameTokenAgain => authHeader' = authHeader
     ELSE authHeader' = authHeader]_vars

\* C30 amended: a step that calls setAuth leaves the header present exactly when
\* the token given is neither null nor the empty string; the header is then the
\* token itself when it starts with "Bearer " and the token behind one "Bearer "
\* when it does not; a call with the same token as the call before leaves the
\* header as it is; any other step leaves the header alone
C30_HeaderIffNonEmpty ==
  [][IF CallsSetAuth
     THEN LET given == GivenBy(authEvent', lsToken)
          IN /\ authHeader' /= << >> <=> (given /= << >> /\ given /= <<EmptyToken>>)
             /\ authHeader' /= << >> =>
                  HeaderHolds(authHeader', given,
                              IF given[1].prefixes = 0 THEN 1 ELSE given[1].prefixes)
             /\ SameTokenAgain => authHeader' = authHeader
     ELSE authHeader' = authHeader]_vars

\* setAuth was called with a token that lacks the prefix: the header has it once
C30_Witness ==
  /\ authEvent.op = "setAuth"
  /\ authEvent.cred /= << >>
  /\ authEvent.cred[1].prefixes = 0
  /\ authEvent.cred[1] /= EmptyToken
  /\ authHeader /= << >>
  /\ authHeader[1].prefixes = 1
  /\ authHeader[1].parts = authEvent.cred[1].parts


\* -------------------------------------------------------------- load claim
\* after the step the page holds the responses of load l, all of them
HoldsLoad(l) ==
  /\ patients' = loads[l].pData[1]
  /\ consultations' = loads[l].cData[1]
  /\ view = "sales" => doctors' = loads[l].dData[1]

\* C26: a load that ends with a request unanswered leaves patients, consultations
\* and doctors as they were; a load that ends with every request answered replaces
\* them all by its own responses; no other step changes any of them
C26_LoadAllOrNothing ==
  [][/\ \A l \in DOMAIN loads :
          (LoadEnds(l) /\ ~AllArrived(l)) => UNCHANGED <<patients, consultations, doctors>>
     /\ \A l \in DOMAIN loads : (LoadEnds(l) /\ AllArrived(l)) => HoldsLoad(l)
     /\ \/ UNCHANGED <<patients, consultations, doctors>>
        \/ \E l \in DOMAIN loads : LoadEnds(l) /\ AllArrived(l) /\ HoldsLoad(l)]_vars

\* a reload of the sales page has failed after a patient was reassigned: the page
\* still holds the patients of the load before
C26_Witness ==
  /\ view = "sales"
  /\ lastEvent.op = "load" /\ lastEvent.outcome = "rejected"
  /\ patients /= {}
  /\ consultations /= << >>
  /\ doctors /= << >>
  /\ patients /= ListAllPatients


\* ------------------------------------------------------------ update claim
\* the step is an update request of this page that the store refused
UpdateFails ==
  /\ lastEvent' /= lastEvent
  /\ lastEvent'.op = "update"
  /\ lastEvent'.outcome = "failed"

\* the step is an update request of this page that the store applied
UpdateSucceeds ==
  /\ lastEvent' /= lastEvent
  /\ lastEvent'.op = "update"
  /\ lastEvent'.outcome = "applied"

SuccessToasts == {"U+2705 Consultation Updated Successfully", "Saved U+2705"}

\* the step belongs to call k of patchConsultation and comes before the request has
\* succeeded: the click, the store refusing the request, the handler left by the
\* rejection
BeforeSuccess(k) ==
  \/ calls[k].phase = "idle" /\ calls'[k].phase = "sent" /\ calls'[k].op = "patch"
  \/ /\ calls[k].op = "patch"
     /\ calls[k].phase = "sent" /\ calls'[k].phase = "answered" /\ ~calls'[k].ok
  \/ /\ calls[k].op = "patch"
     /\ calls[k].phase = "answered" /\ ~calls[k].ok /\ calls'[k].phase = "idle"

\* the step is patchConsultation going on after its request has succeeded
AfterSuccess(k) ==
  /\ calls[k].op = "patch"
  /\ calls[k].phase = "answered" /\ calls[k].ok /\ calls'[k].phase = "idle"

\* C27: in the update panel a step of the handler before its request has succeeded,
\* or with its request failed, leaves the panel open on the same consultation with
\* the typed notes and shows no toast; the success toast appears only in the step
\* that follows a request that succeeded, and that step closes the panel and clears
\* the notes
C27_UpdateOutcome ==
  [][view = "panel" =>
       /\ \A k \in CallSlots :
            BeforeSuccess(k) => UNCHANGED <<openPanelId, notesInput, toast>>
       /\ \A k \in CallSlots :
            AfterSuccess(k) =>
              /\ toast' = "U+2705 Consultation Updated Successfully"
              /\ openPanelId' = NoId
              /\ notesInput' = <<>>
       /\ (toast' \in SuccessToasts /\ toast' /= toast) =>
            \E k \in CallSlots : AfterSuccess(k)]_vars

\* a request of the panel has failed and its handler has ended while the request
\* of a second click is still with the store: the panel is open on consultation 1
\* with the notes the doctor typed and without a toast
C27_Witness ==
  /\ view = "panel"
  /\ lastEvent.op = "update" /\ lastEvent.outcome = "failed"
  /\ \E k \in CallSlots : calls[k].phase = "idle"
  /\ \E k \in CallSlots : calls[k].phase = "sent" /\ calls[k].op = "patch"
  /\ openPanelId = 1
  /\ notesInput = <<"a">>
  /\ toast = ""


\* ------------------------------------------------------------ drafts claim
\* the step ends the handler of a save of the inline page: the request failed, or
\* it was applied and the loadAll the handler awaits has resolved or failed
SaveEnds(c) ==
  /\ Inline
  /\ \/ UpdateFails /\ lastEvent'.cons[1].id = c
     \/ \E l \in DOMAIN loads :
          /\ loads[l].phase = "sent"
          /\ loads'[l].phase = "idle"
          /\ loads[l].origin /= <<>>
          /\ loads[l].origin[1] = c

\* C28: a save of one consultation in the inline page leaves the note draft and the
\* status draft of every other consultation as they were
C28_OtherDraftsKept ==
  [][\A c \in DOMAIN noteDraft :
       (SaveEnds(c) \/ (Inline /\ UpdateSucceeds /\ lastEvent'.cons[1].id = c)) =>
          \A d \in DOMAIN noteDraft \ {c} :
             /\ noteDraft'[d] = noteDraft[d]
             /\ statusDraft'[d] = statusDraft[d]]_vars


\* -------------------------------------------------------------- forms claim
\* the step is a click of a form button that posted a request
Posts(op) ==
  /\ request' /= request
  /\ request'.op = op
  /\ request'.outcome = "sent"

\* the step is a click of a form button that posted nothing
Refuses ==
  /\ request' /= request
  /\ request'.outcome = "refused"

\* C29: create-patient is posted only with a name that is non-empty after trimming,
\* assign-doctor only with a patient and a doctor selected, schedule-consultation
\* only with a patient selected; a click that posts nothing leaves the forms as
\* they were
C29_RequestsNeedInputs ==
  [][/\ Posts("create") => Trim(form.name) /= <<>>
     /\ Posts("assign") => assign.patient_id /= <<>> /\ assign.doctor_email /= <<>>
     /\ Posts("schedule") => schedule.patient_id /= <<>>
     /\ Refuses => UNCHANGED <<form, assign, schedule>>]_vars

====
